---------------------------- MODULE Spec2Model ----------------------------
(***************************************************************************)
(* A model of csv2json (DustRaven/excel2si):                               *)
(*   - the field auto-mapper  (gui/services/mapping_service.py),           *)
(*   - the structural reshaper (core/converter.py: unflatten_dic,          *)
(*     merge_lists),                                                       *)
(*   - the conversion pipeline (core/converter.py: excel_to_json,          *)
(*     csv_to_json, load_datatypes),                                       *)
(*   - the in-memory log buffer (core/logging.py),                         *)
(*   - the mapping widget (gui/components/mapping_widget.py,               *)
(*     mapping_table.py, mapping_chips.py).                                *)
(* Python strings are TLA+ strings, handled character by character with    *)
(* Len, SubSeq and \o.  Python dicts, which keep insertion order, are      *)
(* sequences of key/value entries.                                         *)
(***************************************************************************)
EXTENDS Integers, Sequences, FiniteSets, TLC

VARIABLES
    \* ---- MappingService.auto_map_fields ----
    target_fields,   \* the target_fields argument (a list of names)
    source_fields,   \* the source_fields argument (a list of names)
    mapping,         \* the dict under construction: entries [k |-> target, v |-> source]
    ti,              \* index of the next target of the outer for loop
    matched_by,      \* per processed target, the strategy that settled it
    mpc,             \* "idle" | "loop" | "returned"
    calls,           \* the calls the service has returned from: [targets, sources, result]
    \* ---- unflatten_dic / merge_lists on one record ----
    record,          \* the flat record handed to the reshaper
    element,         \* the dict being reshaped in place
    strip_nulls,     \* the remove_nulls argument of merge_lists
    rpc,             \* "idle" | "start" | "unflattened" | "merged" | "raised"
    \* ---- excel_to_json / csv_to_json ----
    fn,              \* the converter called: "excel" | "csv"
    sheet,           \* the table in the input file: column name -> cells
    field_mapping,   \* the field_mapping argument: target -> source (<<>>: none)
    datatypes_file,  \* the schema file behind the datatypes_file argument
    remove_nulls,    \* the remove_nulls argument
    root_element,    \* the root_element argument
    df,              \* the DataFrame
    datatypes,       \* the local variable datatypes
    log,             \* the warnings, errors and "Applied dtype" lines logged
    raw_json,        \* the list of documents
    out_file,        \* the output file: [state, data]
    error,           \* where the exception that ended the call was raised
    cpc,             \* "idle" | "called" | "read" | "mapped" | "loaded" |
                     \* "coerced" | "reshaped" | "returned" | "raised"
    \* ---- load_datatypes called on its own ----
    schema_file,     \* the schema file behind the file argument
    loaded,          \* the outcome: the value returned or the exception raised
    lpc,             \* "idle" | "called" | "returned" | "raised"
    \* ---- core/logging.py: the in-memory log buffer ----
    log_records,     \* the list log_records: a record is the number of its emission
    emitted,         \* how many records the handler has been given so far
    since,           \* how many of them since the buffer was last cleared
    clears,          \* how many times clear_logs has been called
    \* ---- MappingWidget with its MappingTable and ChipContainer ----
    chips,           \* source_container.chips: the chips' texts, in order
    hidden,          \* the texts of the chips that setVisible(False) has hidden
    target_rows,     \* column 0 of the table: the target fields, row by row
    source_cells,    \* column 2 of the table: the source field shown in each row
    table_mapping    \* mapping_table.field_mapping: entries [k |-> target, v |-> source]

mapvars == <<target_fields, source_fields, mapping, ti, matched_by, mpc, calls>>
reshapevars == <<record, element, strip_nulls, rpc>>
convvars == <<fn, sheet, field_mapping, datatypes_file, remove_nulls, root_element,
              df, datatypes, log, raw_json, out_file, error, cpc>>
loadvars == <<schema_file, loaded, lpc>>
bufvars == <<log_records, emitted, since, clears>>
widgetvars == <<chips, hidden, target_rows, source_cells, table_mapping>>

-----------------------------------------------------------------------------
(***************************************************************************)
(* Strings                                                                 *)
(***************************************************************************)

\* str.lower() on one character (ASCII letters; other characters are kept).
LowerChar(c) ==
    CASE c = "A" -> "a" [] c = "B" -> "b" [] c = "C" -> "c" [] c = "D" -> "d"
      [] c = "E" -> "e" [] c = "F" -> "f" [] c = "G" -> "g" [] c = "H" -> "h"
      [] c = "I" -> "i" [] c = "J" -> "j" [] c = "K" -> "k" [] c = "L" -> "l"
      [] c = "M" -> "m" [] c = "N" -> "n" [] c = "O" -> "o" [] c = "P" -> "p"
      [] c = "Q" -> "q" [] c = "R" -> "r" [] c = "S" -> "s" [] c = "T" -> "t"
      [] c = "U" -> "u" [] c = "V" -> "v" [] c = "W" -> "w" [] c = "X" -> "x"
      [] c = "Y" -> "y" [] c = "Z" -> "z" [] OTHER -> c

\* str.lower()
RECURSIVE Lower(_)
Lower(s) == IF s = "" THEN "" ELSE LowerChar(Head(s)) \o Lower(Tail(s))

\* str.endswith(suffix)
EndsWith(s, suffix) ==
    /\ Len(s) >= Len(suffix)
    /\ SubSeq(s, Len(s) - Len(suffix) + 1, Len(s)) = suffix

\* str.split(sep) for a one-character separator: the list of the pieces
\* between separators, empty pieces included.
RECURSIVE SplitFrom(_, _, _)
SplitFrom(s, sep, piece) ==
    IF s = "" THEN <<piece>>
    ELSE IF Head(s) = sep THEN <<piece>> \o SplitFrom(Tail(s), sep, "")
    ELSE SplitFrom(Tail(s), sep, piece \o Head(s))

Split(s, sep) == SplitFrom(s, sep, "")

\* "".join(parts)
RECURSIVE JoinNoSep(_)
JoinNoSep(parts) ==
    IF parts = <<>> THEN "" ELSE Head(parts) \o JoinNoSep(Tail(parts))

\* x in list
InList(x, list) == \E i \in 1..Len(list) : list[i] = x

\* [v.lower() for v in list]
LowerAll(list) == [i \in 1..Len(list) |-> Lower(list[i])]

Range(seq) == {seq[i] : i \in 1..Len(seq)}

Max(a, b) == IF a >= b THEN a ELSE b

-----------------------------------------------------------------------------
(***************************************************************************)
(* Python dicts: a sequence of entries [k |-> key, v |-> value], keys      *)
(* unique, in insertion order.                                             *)
(***************************************************************************)

DictHas(d, key) == \E i \in 1..Len(d) : d[i].k = key

DictKeys(d) == [i \in 1..Len(d) |-> d[i].k]

\* d[key] (the key is present)
DictGet(d, key) == d[CHOOSE i \in 1..Len(d) : d[i].k = key].v

\* d[key] = value: an existing key keeps its place, a new key goes last.
DictSet(d, key, value) ==
    IF DictHas(d, key)
    THEN [i \in 1..Len(d) |-> IF d[i].k = key THEN [k |-> key, v |-> value] ELSE d[i]]
    ELSE Append(d, [k |-> key, v |-> value])

\* del d[key]
DictDel(d, key) == SelectSeq(d, LAMBDA e : e.k # key)

-----------------------------------------------------------------------------
(***************************************************************************)
(* MappingService: the synonym and special-case tables                     *)
(***************************************************************************)

\* self.variations, in the order of the dict literal.  The second variant of
\* 'street' is a mis-encoded non-ASCII spelling in the source; it is written
\* here with its two non-ASCII characters replaced by '??'.
variations == <<
    [k |-> "address", v |-> <<"adresse", "addr", "adr">>],
    [k |-> "street",  v |-> <<"strasse", "stra??e", "str">>],
    [k |-> "city",    v |-> <<"stadt", "ort", "place">>],
    [k |-> "zip",     v |-> <<"zipcode", "postal", "postcode", "plz", "postleitzahl", "zip_code", "postal_code">>],
    [k |-> "plz",     v |-> <<"zip", "zipcode", "postal", "postcode", "postleitzahl", "zip_code", "postal_code">>],
    [k |-> "name",    v |-> <<"nom", "namen">>],
    [k |-> "first",   v |-> <<"vorname", "firstname", "first_name", "given">>],
    [k |-> "last",    v |-> <<"nachname", "lastname", "last_name", "surname", "family">>],
    [k |-> "phone",   v |-> <<"telefon", "tel", "telephone", "mobile", "cell">>],
    [k |-> "email",   v |-> <<"e-mail", "mail", "e_mail">>],
    [k |-> "country", v |-> <<"land", "pays", "nation">>],
    [k |-> "state",   v |-> <<"bundesland", "province", "region">>],
    [k |-> "company", v |-> <<"firma", "organization", "organisation", "business">>],
    [k |-> "date",    v |-> <<"datum", "day", "tag">>],
    [k |-> "number",  v |-> <<"nummer", "no", "num", "nr">>],
    [k |-> "price",   v |-> <<"preis", "cost", "prix">>],
    [k |-> "amount",  v |-> <<"betrag", "sum", "quantity", "menge">>] >>

\* self.special_cases
special_cases == <<
    [k |-> "zip_code", v |-> <<"PLZ", "ZIP", "PostalCode">>],
    [k |-> "address",  v |-> <<"Adresse", "Anschrift", "ADRESSE">>],
    [k |-> "city",     v |-> <<"Stadt", "Ort", "CITY">>],
    [k |-> "country",  v |-> <<"Land", "COUNTRY">>],
    [k |-> "phone",    v |-> <<"Telefon", "Tel", "PHONE">>],
    [k |-> "email",    v |-> <<"Email", "E-Mail", "EMAIL">>] >>

\* The assignments __init__ makes to self.variation_lookup for one entry of
\* self.variations, in order: every variant, then the main word itself.
LookupWrites(entry) ==
    [i \in 1..Len(entry.v) |-> [k |-> Lower(entry.v[i]), v |-> entry.k]]
        \o <<[k |-> Lower(entry.k), v |-> entry.k]>>

\* All assignments to self.variation_lookup, in order.
RECURSIVE AllLookupWrites(_)
AllLookupWrites(n) ==
    IF n = 0 THEN <<>> ELSE AllLookupWrites(n - 1) \o LookupWrites(variations[n])

\* self.variation_lookup: a dict whose keys stand in the order of their first
\* assignment, each holding the value of the last assignment to it.
variation_lookup ==
    LET w == AllLookupWrites(Len(variations))
        Last(key) == CHOOSE j \in 1..Len(w) :
                        /\ w[j].k = key
                        /\ \A m \in (j + 1)..Len(w) : w[m].k # key
        firsts == SelectSeq([i \in 1..Len(w) |-> i],
                            LAMBDA i : \A j \in 1..(i - 1) : w[j].k # w[i].k)
    IN  [n \in 1..Len(firsts) |->
            [k |-> w[firsts[n]].k, v |-> w[Last(w[firsts[n]].k)].v]]

-----------------------------------------------------------------------------
(***************************************************************************)
(* MappingService.auto_map_fields                                          *)
(*                                                                         *)
(* A score is a fraction <<numerator, denominator>>.  For the bounded      *)
(* names below Python's float comparisons of two scores agree with the     *)
(* exact ones; the comparison with 0.3 does not, and is GtThreshold.       *)
(***************************************************************************)

\* The suffix list of both suffix loops.
suffixes == <<"_id", "_name", "_nr", "_no", "_num", "_number">>

\* The suffix loop: the first suffix of the list that ends the word is cut
\* off (word[:-len(suffix)]) and the loop breaks.
RECURSIVE StripSuffixFrom(_, _)
StripSuffixFrom(word, i) ==
    IF i > Len(suffixes) THEN word
    ELSE IF EndsWith(word, suffixes[i])
         THEN SubSeq(word, 1, Len(word) - Len(suffixes[i]))
         ELSE StripSuffixFrom(word, i + 1)

\* target_base / source_base
BaseOf(name) == StripSuffixFrom(Lower(name), 1)

\* The variation set of a list of parts: every part, and for a part that is
\* a key of variation_lookup, the word it stands for.
VariationSet(parts) ==
    UNION { {parts[i]} \cup
            (IF DictHas(variation_lookup, Lower(parts[i]))
             THEN {DictGet(variation_lookup, Lower(parts[i]))} ELSE {})
            : i \in 1..Len(parts) }

target_variations(target) == VariationSet(Split(BaseOf(target), "_"))

source_variations(source) == VariationSet(Split(BaseOf(source), "_"))

\* target_lower in self.special_cases and source in self.special_cases[target_lower]
IsSpecialCase(target, source) ==
    /\ DictHas(special_cases, Lower(target))
    /\ InList(source, DictGet(special_cases, Lower(target)))

\* The direct match with known variations, in either direction.
IsDirectVariation(target, source) ==
    \/ /\ DictHas(variations, BaseOf(target))
       /\ InList(Lower(source), LowerAll(DictGet(variations, BaseOf(target))))
    \/ /\ DictHas(variations, BaseOf(source))
       /\ InList(Lower(target), LowerAll(DictGet(variations, BaseOf(source))))

\* len(common) / max(len(target_variations), len(source_variations)),
\* times 1.5 when more than one variation is common.
TokenScore(tv, sv) ==
    LET c == Cardinality(tv \cap sv)
        m == Max(Cardinality(tv), Cardinality(sv))
    IN  IF c > 1 THEN <<3 * c, 2 * m>> ELSE <<c, m>>

\* a > b on fractions
ScoreGt(a, b) == a[1] * b[2] > b[1] * a[2]

SpecialScore == <<1, 1>>      \* best_score = 1.0
DirectScore == <<9, 10>>      \* best_score = 0.9
Threshold == <<3, 10>>        \* best_score > 0.3
ZeroScore == <<0, 1>>         \* best_score = 0

\* A later source whose score only equals the best one would replace it.
ScoreImprovesOrTies(score, best_score) == ~ScoreGt(best_score, score)

\* if score > best_score
ScoreImproves(score, best_score) == ScoreGt(score, best_score)

\* best_match = None, best_score = 0
NoBest == [found |-> FALSE, match |-> "", score |-> ZeroScore, how |-> "none"]

\* The loop over source_fields for one target, from source number i on, with
\* the best match so far.  A special-case or direct-variation hit sets the
\* best match and breaks out of the loop.
RECURSIVE ScanSources(_, _, _, _)
ScanSources(target, sources, i, best) ==
    IF i > Len(sources) THEN best
    ELSE LET source == sources[i]
             tv == target_variations(target)
             sv == source_variations(source)
             score == TokenScore(tv, sv)
         IN  IF IsSpecialCase(target, source)
             THEN [found |-> TRUE, match |-> source, score |-> SpecialScore, how |-> "special"]
             ELSE IF IsDirectVariation(target, source)
             THEN [found |-> TRUE, match |-> source, score |-> DirectScore, how |-> "direct"]
             ELSE IF (tv \cap sv) # {} /\ ScoreImproves(score, best.score)
             THEN ScanSources(target, sources, i + 1,
                      [found |-> TRUE, match |-> source, score |-> score, how |-> "token"])
             ELSE ScanSources(target, sources, i + 1, best)

\* The best match of the fuzzy stage for one target.
BestMatch(target, sources) == ScanSources(target, sources, 1, NoBest)

\* best_score > 0.3 on doubles.  A score of exact value 3/10 is a token score
\* of c common variations among 5c with c > 1, computed as (c / 5c) * 1.5:
\* the quotient is the double 0.2, and 0.2 * 1.5 is 0.30000000000000004,
\* which is above the double 0.3.  Every other score is as far from 0.3 as
\* its fraction is.
GtThreshold(score) == ~ScoreGt(Threshold, score)

\* A best match is accepted only when no earlier call of the service has
\* returned it.
AcceptedIfNew(best) ==
    /\ best.found /\ best.match # "" /\ GtThreshold(best.score)
    /\ \A c \in 1..Len(calls) :
           \A e \in 1..Len(calls[c].result) : calls[c].result[e].v # best.match

\* Only a score above that of a direct synonym is accepted.
AcceptedAboveDirect(best) == best.found /\ best.match # "" /\ ScoreGt(best.score, DirectScore)

\* A best match is accepted only while no target before has taken it.
AcceptedIfUnused(best) ==
    /\ best.found /\ best.match # "" /\ GtThreshold(best.score)
    /\ \A e \in 1..Len(mapping) : mapping[e].v # best.match

\* if best_match and best_score > 0.3
Accepted(best) == best.found /\ best.match # "" /\ GtThreshold(best.score)

\* target in source_fields
HasExactMatch(target, sources) == InList(target, sources)

\* some source equals the target ignoring case
HasCaseMatch(target, sources) ==
    \E i \in 1..Len(sources) : Lower(sources[i]) = Lower(target)

\* the first such source (the loop breaks on it)
FirstCaseMatch(target, sources) ==
    sources[CHOOSE i \in 1..Len(sources) :
                /\ Lower(sources[i]) = Lower(target)
                /\ \A j \in 1..(i - 1) : Lower(sources[j]) # Lower(target)]

\* One pass of the for loop over target_fields, settled by the exact match.
ExactMatch ==
    /\ mpc = "loop" /\ ti <= Len(target_fields)
    /\ HasExactMatch(target_fields[ti], source_fields)
    /\ mapping' = DictSet(mapping, target_fields[ti], target_fields[ti])
    /\ matched_by' = Append(matched_by, "exact")
    /\ ti' = ti + 1
    /\ UNCHANGED <<target_fields, source_fields, mpc, calls, reshapevars, bufvars,
                   widgetvars, convvars, loadvars>>

\* One pass settled by the case-insensitive match.
CaseInsensitiveMatch ==
    /\ mpc = "loop" /\ ti <= Len(target_fields)
    /\ ~HasExactMatch(target_fields[ti], source_fields)
    /\ HasCaseMatch(target_fields[ti], source_fields)
    /\ mapping' = DictSet(mapping, target_fields[ti],
                          FirstCaseMatch(target_fields[ti], source_fields))
    /\ matched_by' = Append(matched_by, "case")
    /\ ti' = ti + 1
    /\ UNCHANGED <<target_fields, source_fields, mpc, calls, reshapevars, bufvars,
                   widgetvars, convvars, loadvars>>

\* One pass that reaches the fuzzy stage: the scan of the sources, then the
\* threshold test.
FuzzyMatch ==
    /\ mpc = "loop" /\ ti <= Len(target_fields)
    /\ ~HasExactMatch(target_fields[ti], source_fields)
    /\ ~HasCaseMatch(target_fields[ti], source_fields)
    /\ LET best == BestMatch(target_fields[ti], source_fields)
       IN  IF Accepted(best)
           THEN /\ mapping' = DictSet(mapping, target_fields[ti], best.match)
                /\ matched_by' = Append(matched_by, best.how)
           ELSE /\ mapping' = mapping
                /\ matched_by' = Append(matched_by, "none")
    /\ ti' = ti + 1
    /\ UNCHANGED <<target_fields, source_fields, mpc, calls, reshapevars, bufvars,
                   widgetvars, convvars, loadvars>>

\* return mapping
AutoMapReturn ==
    /\ mpc = "loop" /\ ti > Len(target_fields)
    /\ mpc' = "returned"
    /\ calls' = Append(calls, [targets |-> target_fields, sources |-> source_fields,
                               result |-> mapping])
    /\ UNCHANGED <<target_fields, source_fields, mapping, ti, matched_by,
                   reshapevars, bufvars,
                   widgetvars, convvars, loadvars>>

\* The next call of auto_map_fields on the same service: "mapping = {}" and
\* the loop starts over on the new arguments.  self.variations,
\* self.special_cases and self.variation_lookup are written by __init__ only.
AutoMapCall(targets, sources) ==
    /\ mpc = "returned"
    /\ target_fields' = targets
    /\ source_fields' = sources
    /\ mapping' = <<>>
    /\ ti' = 1
    /\ matched_by' = <<>>
    /\ mpc' = "loop"
    /\ UNCHANGED <<calls, reshapevars, bufvars, widgetvars, convvars, loadvars>>

-----------------------------------------------------------------------------
(***************************************************************************)
(* Python values                                                           *)
(*                                                                         *)
(* A value carries its Python type in the field t.  A float is held in     *)
(* hundredths (10.5 is FloatV(1050)); NaN is the missing cell of pandas,   *)
(* None the Python None, TsV a pandas Timestamp.                           *)
(***************************************************************************)

IntV(n) == [t |-> "int", i |-> n]
FloatV(c) == [t |-> "float", c |-> c]
StrV(s) == [t |-> "str", s |-> s]
BoolV(b) == [t |-> "bool", b |-> b]
NaN == [t |-> "nan"]
None == [t |-> "none"]
TsV(d) == [t |-> "ts", d |-> d]
DictV(d) == [t |-> "dict", d |-> d]
ListV(l) == [t |-> "list", l |-> l]

\* A null test that takes a text for a missing value too.
IsNullOrText(v) == v.t \in {"nan", "none", "str"}

\* A null test that knows None but not the missing cell NaN.
IsNone(v) == v.t = "none"

\* pd.isnull(v) on a scalar or a dict
IsNull(v) == v.t \in {"nan", "none"}

\* The orders in which a Python set of these elements may be iterated.
Orders(S) ==
    {p \in [1..Cardinality(S) -> S] :
        \A i, j \in 1..Cardinality(S) : i # j => p[i] # p[j]}

-----------------------------------------------------------------------------
(***************************************************************************)
(* unflatten_dic                                                           *)
(*                                                                         *)
(* The function mutates its argument and may raise; the operators return   *)
(* [ok |-> whether it returned, d |-> the dict as it then stands].         *)
(***************************************************************************)

\* "".join(subkeys[1:]): the key the value gets inside the nested dict.
RestKey(subkeys) == JoinNoSep(Tail(subkeys))

RECURSIVE UnflattenItems(_, _)

\* unflatten_dic(dic)
unflatten_dic(dic) == UnflattenItems(dic, dic)

\* The loop over list(dic.items()): `items` is what is left of the snapshot,
\* `dic` the dict as mutated so far.
UnflattenItems(dic, items) ==
    IF items = <<>> THEN [ok |-> TRUE, d |-> dic]
    ELSE LET k == Head(items).k
             v == Head(items).v
             subkeys == Split(k, ".")
         IN  IF Len(subkeys) > 1
             THEN LET \* dic.setdefault(subkeys[0], dict())
                      d1 == IF DictHas(dic, subkeys[1]) THEN dic
                            ELSE DictSet(dic, subkeys[1], DictV(<<>>))
                      inner == DictGet(d1, subkeys[1])
                  IN  IF inner.t # "dict"
                      THEN \* .update on a value that is no dict: AttributeError
                           [ok |-> FALSE, d |-> d1]
                      ELSE LET \* dic[subkeys[0]].update({...: v})
                               updated == DictSet(inner.d, RestKey(subkeys), v)
                               \* unflatten_dic(dic[subkeys[0]])
                               rec == unflatten_dic(updated)
                               d2 == DictSet(d1, subkeys[1], DictV(rec.d))
                           IN  IF ~rec.ok THEN [ok |-> FALSE, d |-> d2]
                               ELSE \* del (dic[k])
                                    UnflattenItems(DictDel(d2, k), Tail(items))
             ELSE UnflattenItems(dic, Tail(items))

-----------------------------------------------------------------------------
(***************************************************************************)
(* merge_lists                                                             *)
(*                                                                         *)
(* set() fixes no order of iteration, so the operators return the set of   *)
(* the outcomes [ok, d] the call can have, one per order.                  *)
(***************************************************************************)

\* The test `if pd.isnull(v):`.  On a list pd.isnull returns an array, whose
\* truth value is that of its only element, False when it is empty, and a
\* ValueError when it has two or more elements.
NullTest(v) ==
    IF v.t = "list"
    THEN IF Len(v.l) = 0 THEN "false"
         ELSE IF Len(v.l) > 1 \/ v.l[1].t \in {"list", "dict"} THEN "raise"
         ELSE IF IsNull(v.l[1]) THEN "true" ELSE "false"
    ELSE IF IsNull(v) THEN "true" ELSE "false"

\* all(isinstance(l, list) and len(l) == len(values[0]) for l in values);
\* of no values at all it is True.
IsColumnar(d) ==
    \A i \in 1..Len(d) : d[i].v.t = "list" /\ Len(d[i].v.l) = Len(d[1].v.l)

\* set() needs hashable elements: a list or a dict raises TypeError.
Hashable(v) == v.t \notin {"list", "dict"}

\* The value by which a set tells elements apart: Python holds True equal
\* to 1 and to 1.0 (False to 0 and 0.0), with the same hash.
PyKey(v) ==
    IF v.t = "bool" THEN IntV(IF v.b THEN 1 ELSE 0)
    ELSE IF v.t = "float" /\ v.c % 100 = 0 THEN IntV(v.c \div 100)
    ELSE v

\* a == b on two tuples (or two lists used as tuples of one element)
PyEq(a, b) == Len(a) = Len(b) /\ \A c \in 1..Len(a) : PyKey(a[c]) = PyKey(b[c])

\* set(rows): of elements that are equal the set keeps the first one added.
PySet(rows) ==
    {rows[i] : i \in {n \in 1..Len(rows) : \A j \in 1..(n - 1) : ~PyEq(rows[j], rows[n])}}

\* zip(*values): the index-wise rows of a columnar dict.
Rows(d) ==
    IF d = <<>> THEN <<>>
    ELSE [i \in 1..Len(d[1].v.l) |-> [c \in 1..Len(d) |-> d[c].v.l[i]]]

\* set(zip(*values)): the distinct index-wise rows of a columnar dict.
RowSet(d) == PySet(Rows(d))

\* set(v): the distinct elements of a list.
ElementSet(l) == {r[1] : r \in PySet([i \in 1..Len(l) |-> <<l[i]>>])}

\* {subkey: t[i] for i, subkey in enumerate(keys)}
RowDict(d, row) == DictV([c \in 1..Len(d) |-> [k |-> d[c].k, v |-> row[c]]])

RECURSIVE MergeItems(_, _, _)

\* merge_lists(dic, remove_nulls)
merge_lists(dic, nulls) == MergeItems(dic, dic, nulls)

\* What one pass of the loop does to dic for the item (k, v).
MergeItem(dic, k, v, nulls) ==
    LET nt == NullTest(v)
        d1 == IF nt = "true"
              THEN IF nulls THEN DictDel(dic, k) ELSE DictSet(dic, k, None)
              ELSE dic
    IN  IF nt = "raise" THEN {[ok |-> FALSE, d |-> dic]}
        ELSE IF v.t = "dict"
        THEN IF IsColumnar(v.d)
             THEN IF \E c \in 1..Len(v.d) : \E i \in 1..Len(v.d[c].v.l) :
                         ~Hashable(v.d[c].v.l[i])
                  THEN {[ok |-> FALSE, d |-> DictSet(d1, k, ListV(<<>>))]}
                  ELSE {[ok |-> TRUE,
                         d |-> DictSet(d1, k,
                                 ListV([n \in 1..Len(o) |-> RowDict(v.d, o[n])]))]
                        : o \in Orders(RowSet(v.d))}
             ELSE {[ok |-> r.ok, d |-> DictSet(d1, k, DictV(r.d))]
                   : r \in merge_lists(v.d, nulls)}
        ELSE IF v.t = "list"
        THEN IF \E i \in 1..Len(v.l) : ~Hashable(v.l[i])
             THEN {[ok |-> FALSE, d |-> d1]}
             ELSE {[ok |-> TRUE, d |-> DictSet(d1, k, ListV(o))]
                   : o \in Orders(ElementSet(v.l))}
        ELSE {[ok |-> TRUE, d |-> d1]}

\* The loop over list(dic.items()).
MergeItems(dic, items, nulls) ==
    IF items = <<>> THEN {[ok |-> TRUE, d |-> dic]}
    ELSE UNION { IF o.ok THEN MergeItems(o.d, Tail(items), nulls) ELSE {o}
                 : o \in MergeItem(dic, Head(items).k, Head(items).v, nulls) }

-----------------------------------------------------------------------------
(***************************************************************************)
(* The reshaper on one record: unflatten_dic(element), then                *)
(* merge_lists(element, remove_nulls), as both converters call them.      *)
(***************************************************************************)

\* unflatten_dic(element)
Unflatten ==
    /\ rpc = "start"
    /\ LET r == unflatten_dic(element)
       IN  /\ element' = r.d
           /\ rpc' = IF r.ok THEN "unflattened" ELSE "raised"
    /\ UNCHANGED <<record, strip_nulls, mapvars, bufvars, widgetvars, convvars, loadvars>>

\* merge_lists(element, remove_nulls)
MergeLists ==
    /\ rpc = "unflattened"
    /\ \E r \in merge_lists(element, strip_nulls) :
           /\ element' = r.d
           /\ rpc' = IF r.ok THEN "merged" ELSE "raised"
    /\ UNCHANGED <<record, strip_nulls, mapvars, bufvars, widgetvars, convvars, loadvars>>

-----------------------------------------------------------------------------
(***************************************************************************)
(* pandas: parsing numbers, column types, astype                           *)
(*                                                                         *)
(* A DataFrame is a dict from column name to the list of the column's      *)
(* cells.  The dtype of a column follows from its cells: int64 (all int),  *)
(* float64 (floats and NaN), bool (all bool), object otherwise.            *)
(***************************************************************************)

Digits == {"0", "1", "2", "3", "4", "5", "6", "7", "8", "9"}

DigitVal(c) ==
    CASE c = "0" -> 0 [] c = "1" -> 1 [] c = "2" -> 2 [] c = "3" -> 3
      [] c = "4" -> 4 [] c = "5" -> 5 [] c = "6" -> 6 [] c = "7" -> 7
      [] c = "8" -> 8 [] c = "9" -> 9

IsDigits(s) == s # "" /\ \A i \in 1..Len(s) : SubSeq(s, i, i) \in Digits

\* The number a string of digits spells ("" spells 0).
RECURSIVE DigitsVal(_)
DigitsVal(s) ==
    IF s = "" THEN 0
    ELSE 10 * DigitsVal(SubSeq(s, 1, Len(s) - 1)) + DigitVal(SubSeq(s, Len(s), Len(s)))

\* The hundredths the digits after the decimal point spell; digits past the
\* second are beyond what FloatV holds.
FracVal(s) ==
    IF Len(s) = 0 THEN 0
    ELSE IF Len(s) = 1 THEN 10 * DigitVal(s)
    ELSE DigitsVal(SubSeq(s, 1, 2))

\* str.replace(old, new, regex=False) for a one-character old
RECURSIVE Replace(_, _, _)
Replace(s, old, new) ==
    IF s = "" THEN ""
    ELSE (IF Head(s) = old THEN new ELSE Head(s)) \o Replace(Tail(s), old, new)

\* The number an unsigned decimal numeral spells, with `point` as its decimal
\* point: IntV for digits alone, FloatV with a point, NaN for anything else.
ParseUnsigned(s, point) ==
    LET parts == Split(s, point)
    IN  IF Len(parts) = 1 /\ IsDigits(parts[1]) THEN IntV(DigitsVal(parts[1]))
        ELSE IF /\ Len(parts) = 2
                /\ parts[1] = "" \/ IsDigits(parts[1])
                /\ parts[2] = "" \/ IsDigits(parts[2])
                /\ parts[1] # "" \/ parts[2] # ""
        THEN FloatV(100 * DigitsVal(parts[1]) + FracVal(parts[2]))
        ELSE NaN

\* The same with an optional sign.
ParseNumber(s, point) ==
    IF s # "" /\ Head(s) \in {"-", "+"}
    THEN LET n == ParseUnsigned(Tail(s), point)
         IN  IF Head(s) = "+" \/ n.t = "nan" THEN n
             ELSE IF n.t = "int" THEN IntV(0 - n.i) ELSE FloatV(0 - n.c)
    ELSE ParseUnsigned(s, point)

\* int -> float, as a float64 column holds its numbers
ToFloat(v) == IF v.t = "int" THEN FloatV(100 * v.i) ELSE v

\* float -> int (truncation toward zero), as astype('int') does
ToInt(v) ==
    IF v.t = "float"
    THEN IntV(IF v.c >= 0 THEN v.c \div 100 ELSE 0 - ((0 - v.c) \div 100))
    ELSE v

\* pd.to_numeric(column, errors='coerce') on parsed cells: int64 when every
\* cell is an integer, float64 (with NaN for what did not parse) otherwise.
ToNumericColumn(parsed) ==
    IF \A i \in 1..Len(parsed) : parsed[i].t = "int" THEN parsed
    ELSE [i \in 1..Len(parsed) |-> ToFloat(parsed[i])]

\* pd.to_numeric on the texts as they are, a comma left a comma.
to_numeric_unreplaced(cells) ==
    ToNumericColumn([i \in 1..Len(cells) |-> ParseNumber(cells[i].s, ".")])

\* pd.to_numeric(df[col].str.replace(',', '.', regex=False), errors='coerce')
to_numeric_replaced(cells) ==
    ToNumericColumn([i \in 1..Len(cells) |->
                        ParseNumber(Replace(cells[i].s, ",", "."), ".")])

\* pd.api.types.is_string_dtype(df[col]): an object column all of whose
\* cells are strings.
is_string_dtype(cells) ==
    Len(cells) > 0 /\ \A i \in 1..Len(cells) : cells[i].t = "str"

\* str(n) for an integer n >= 0
RECURSIVE NatToStr(_)
NatToStr(n) ==
    LET d == SubSeq("0123456789", (n % 10) + 1, (n % 10) + 1)
    IN  IF n < 10 THEN d ELSE NatToStr(n \div 10) \o d

IntToStr(n) == IF n < 0 THEN "-" \o NatToStr(0 - n) ELSE NatToStr(n)

\* str(x) for a float of hundredths c: 10.0, 10.5, 10.25
FloatToStr(c) ==
    LET a == IF c < 0 THEN 0 - c ELSE c
        frac == IF a % 10 = 0 THEN NatToStr((a % 100) \div 10)
                ELSE NatToStr((a % 100) \div 10) \o NatToStr(a % 10)
    IN  (IF c < 0 THEN "-" ELSE "") \o NatToStr(a \div 100) \o "." \o frac

\* dtype conversion of one cell by astype: int(x), float(x), bool(x), str(x).
\* [ok |-> FALSE] when the conversion raises.
CastCell(v, dtype) ==
    CASE dtype = "int" ->
            CASE v.t = "int" -> [ok |-> TRUE, v |-> v]
              [] v.t = "float" -> [ok |-> TRUE, v |-> ToInt(v)]
              [] v.t = "bool" -> [ok |-> TRUE, v |-> IntV(IF v.b THEN 1 ELSE 0)]
              [] v.t = "str" ->
                    IF ParseNumber(v.s, ".").t = "int"
                    THEN [ok |-> TRUE, v |-> ParseNumber(v.s, ".")]
                    ELSE [ok |-> FALSE, v |-> v]
              [] OTHER -> [ok |-> FALSE, v |-> v]      \* NaN, Timestamp
      [] dtype = "float" ->
            CASE v.t \in {"int", "float", "nan"} -> [ok |-> TRUE, v |-> ToFloat(v)]
              [] v.t = "bool" -> [ok |-> TRUE, v |-> FloatV(IF v.b THEN 100 ELSE 0)]
              [] v.t = "str" ->
                    IF ParseNumber(v.s, ".").t \in {"int", "float"}
                    THEN [ok |-> TRUE, v |-> ToFloat(ParseNumber(v.s, "."))]
                    ELSE [ok |-> FALSE, v |-> v]
              [] OTHER -> [ok |-> FALSE, v |-> v]      \* Timestamp
      [] dtype = "bool" ->
            \* the truth value: of a string, whether it is non-empty
            CASE v.t = "str" -> [ok |-> TRUE, v |-> BoolV(v.s # "")]
              [] v.t = "int" -> [ok |-> TRUE, v |-> BoolV(v.i # 0)]
              [] v.t = "float" -> [ok |-> TRUE, v |-> BoolV(v.c # 0)]
              [] v.t = "bool" -> [ok |-> TRUE, v |-> v]
              [] OTHER -> [ok |-> TRUE, v |-> BoolV(TRUE)]
      [] dtype = "str" ->
            CASE v.t = "str" -> [ok |-> TRUE, v |-> v]
              [] v.t = "int" -> [ok |-> TRUE, v |-> StrV(IntToStr(v.i))]
              [] v.t = "float" -> [ok |-> TRUE, v |-> StrV(FloatToStr(v.c))]
              [] v.t = "bool" -> [ok |-> TRUE, v |-> StrV(IF v.b THEN "True" ELSE "False")]
              [] v.t = "ts" -> [ok |-> TRUE, v |-> StrV(v.d)]
              [] OTHER -> [ok |-> TRUE, v |-> StrV("nan")]
      [] OTHER -> [ok |-> FALSE, v |-> v]              \* data type not understood

\* Series.astype(dtype): every cell is cast, and one failing cell makes the
\* call raise ([ok |-> FALSE]; the column is then not replaced).
astype(cells, dtype) ==
    IF \E i \in 1..Len(cells) : ~CastCell(cells[i], dtype).ok
    THEN [ok |-> FALSE, cells |-> cells]
    ELSE [ok |-> TRUE, cells |-> [i \in 1..Len(cells) |-> CastCell(cells[i], dtype).v]]

-----------------------------------------------------------------------------
(***************************************************************************)
(* load_datatypes                                                          *)
(*                                                                         *)
(* A schema file is [given, exists, yaml, legacy]: whether a path was      *)
(* passed, whether a file is there, and what yaml.safe_load and eval make  *)
(* of its text: [ok |-> FALSE] when the parser raises, [ok |-> TRUE,       *)
(* data |-> the parsed value] otherwise.  TypeV is a Python type object    *)
(* (int, float, str, bool) of the legacy format.                           *)
(***************************************************************************)

TypeV(name) == [t |-> "type", name |-> name]

\* The legacy branch: type objects under data['fields'] become their names.
NormalizeTypes(data) ==
    IF data.t = "dict" /\ DictHas(data.d, "fields") /\ DictGet(data.d, "fields").t = "dict"
    THEN LET f == DictGet(data.d, "fields").d
         IN  DictV(DictSet(data.d, "fields",
                 DictV([i \in 1..Len(f) |->
                         [k |-> f[i].k,
                          v |-> IF f[i].v.t = "type" THEN StrV(f[i].v.name) ELSE f[i].v]])))
    ELSE data

\* An extraction that takes 'fields' only when a mapping is under it.
ExtractFieldsIfMapping(data) ==
    IF data.t = "dict" /\ DictHas(data.d, "fields") /\ DictGet(data.d, "fields").t = "dict"
    THEN DictGet(data.d, "fields") ELSE data

\* Extract fields from the data structure.
ExtractFields(data) ==
    IF data.t = "dict" /\ DictHas(data.d, "fields")
    THEN DictGet(data.d, "fields") ELSE data

\* load_datatypes(file): the value returned ([ok |-> TRUE, v]), or the
\* exception that leaves the function ([ok |-> FALSE, exc]).  When both
\* parsers fail, the bare raise of the inner handler re-raises the exception
\* of eval, and the outer handler passes it on.
load_datatypes(file) ==
    IF ~file.exists
    THEN [ok |-> FALSE, v |-> None, exc |-> "FileNotFoundError"]    \* open() raises
    ELSE IF file.yaml.ok
    THEN [ok |-> TRUE, v |-> ExtractFields(file.yaml.data), exc |-> ""]
    ELSE IF file.legacy.ok
    THEN [ok |-> TRUE, v |-> ExtractFields(NormalizeTypes(file.legacy.data)), exc |-> ""]
    ELSE [ok |-> FALSE, v |-> None, exc |-> file.legacy.exc]        \* eval raises

\* The truth value of a Python value.
Truthy(v) ==
    CASE v.t = "none" -> FALSE
      [] v.t = "dict" -> v.d # <<>>
      [] v.t = "list" -> v.l # <<>>
      [] v.t = "str" -> v.s # ""
      [] v.t = "int" -> v.i # 0
      [] v.t = "bool" -> v.b
      [] OTHER -> TRUE

\* A log record: level, message, and the column it is about ("" for none).
LogRec(lvl, msg, col) == [lvl |-> lvl, msg |-> msg, col |-> col]

\* A loader that swallows a failure without logging it.
LoadDatatypesQuietly(file) ==
    IF file.given /\ file.exists /\ load_datatypes(file).ok
    THEN [datatypes |-> load_datatypes(file).v, log |-> <<>>]
    ELSE [datatypes |-> None, log |-> <<>>]

\* The block "Try to load datatypes if available" of both converters: the
\* datatypes it leaves and what it logs.  An exception of load_datatypes, or
\* of the debug line that calls datatypes.keys(), is caught and logged.
LoadDatatypesStep(file) ==
    IF ~file.given THEN [datatypes |-> None, log |-> <<>>]
    ELSE IF ~file.exists
    THEN [datatypes |-> None,
          log |-> <<LogRec("warning", "Datatypes file not found", "")>>]
    ELSE LET r == load_datatypes(file)
         IN  IF ~r.ok
             THEN [datatypes |-> None,
                   log |-> <<LogRec("error", "Could not load datatypes", "")>>]
             ELSE IF r.v.t # "dict"
             THEN [datatypes |-> r.v,
                   log |-> <<LogRec("error", "Could not load datatypes", "")>>]
             ELSE [datatypes |-> r.v, log |-> <<>>]

\* A call load_datatypes(file) made on its own, as the tests make it.
CallLoadDatatypes ==
    /\ lpc = "called"
    /\ loaded' = load_datatypes(schema_file)
    /\ lpc' = IF load_datatypes(schema_file).ok THEN "returned" ELSE "raised"
    /\ UNCHANGED <<schema_file, mapvars, reshapevars, bufvars, widgetvars, convvars>>

-----------------------------------------------------------------------------
(***************************************************************************)
(* excel_to_json: field mapping and type coercion                          *)
(***************************************************************************)

\* The loop over field_mapping.items() from entry n on: mapped_df and the
\* warnings for the sources that are no column of df.
RECURSIVE MapColumns(_, _, _, _)
MapColumns(frame, fm, n, acc) ==
    IF n > Len(fm) THEN acc
    ELSE IF DictHas(frame, fm[n].v)
    THEN MapColumns(frame, fm, n + 1,
             [df |-> DictSet(acc.df, fm[n].k, DictGet(frame, fm[n].v)), log |-> acc.log])
    ELSE MapColumns(frame, fm, n + 1,
             [df |-> acc.df,
              log |-> Append(acc.log, LogRec("warning", "Source field not found", fm[n].v))])

\* DataFrame.empty: no column, or no row
IsEmptyDf(frame) == frame = <<>> \/ frame[1].v = <<>>

\* "Apply field mapping if provided": the DataFrame the rest works on.
ApplyFieldMapping(frame, fm) ==
    IF fm = <<>> THEN [df |-> frame, log |-> <<>>]
    ELSE LET m == MapColumns(frame, fm, 1, [df |-> <<>>, log |-> <<>>])
         IN  IF ~IsEmptyDf(m.df) THEN m
             ELSE [df |-> frame,
                   log |-> Append(m.log, LogRec("warning", "No fields were mapped", ""))]

\* dtype == 'float' or dtype == 'int'
IsNumericName(dtype) == dtype.t = "str" /\ dtype.s \in {"float", "int"}

\* The dtype astype is given: a name, or the type object of that name.
DtypeName(dtype) ==
    CASE dtype.t = "str" -> dtype.s
      [] dtype.t = "type" -> dtype.name
      [] OTHER -> ""

\* The try block for one column: the comma-decimal conversion is assigned to
\* the column before astype is attempted.
CoerceColumn(cells, dtype) ==
    LET numeric == IF is_string_dtype(cells) /\ IsNumericName(dtype)
                   THEN to_numeric_replaced(cells) ELSE cells
    IN  astype(numeric, DtypeName(dtype))

\* The loop over datatypes.items() from entry n on.
RECURSIVE ApplyDatatypesFrom(_, _, _)
ApplyDatatypesFrom(acc, dt, n) ==
    IF n > Len(dt) THEN acc
    ELSE LET col == dt[n].k
             dtype == dt[n].v
         IN  IF DictHas(acc.df, col)
             THEN LET r == CoerceColumn(DictGet(acc.df, col), dtype)
                  IN  ApplyDatatypesFrom(
                          [df |-> DictSet(acc.df, col, r.cells),
                           log |-> Append(acc.log,
                                     IF r.ok THEN LogRec("debug", "Applied dtype", col)
                                     ELSE LogRec("warning", "Could not apply dtype", col))],
                          dt, n + 1)
             ELSE ApplyDatatypesFrom(
                      [df |-> acc.df,
                       log |-> Append(acc.log,
                                 LogRec("warning", "Datatype specified but column not found", col))],
                      dt, n + 1)

\* The same loop with no line logged.
ApplyDatatypesSilently(frame, dt) ==
    [df |-> ApplyDatatypesFrom([df |-> frame, log |-> <<>>], dt, 1).df, log |-> <<>>]

\* "Apply datatypes directly to the DataFrame if available" for a dict
ApplyDatatypes(frame, dt) == ApplyDatatypesFrom([df |-> frame, log |-> <<>>], dt, 1)

-----------------------------------------------------------------------------
(***************************************************************************)
(* csv_to_json: pd.read_csv(sep=";", decimal=',', dtype=datatypes)         *)
(***************************************************************************)

TrueTexts == {"True", "TRUE", "true"}
FalseTexts == {"False", "FALSE", "false"}

\* One field read under a declared dtype; a field that does not spell a
\* value of the dtype makes read_csv raise.
CsvField(v, name) ==
    CASE name = "int" ->
            IF v.t = "str" /\ ParseNumber(v.s, ",").t = "int"
            THEN [ok |-> TRUE, v |-> ParseNumber(v.s, ",")]
            ELSE [ok |-> FALSE, v |-> v]
      [] name = "float" ->
            IF v.t = "nan" THEN [ok |-> TRUE, v |-> NaN]
            ELSE IF ParseNumber(v.s, ",").t \in {"int", "float"}
            THEN [ok |-> TRUE, v |-> ToFloat(ParseNumber(v.s, ","))]
            ELSE [ok |-> FALSE, v |-> v]
      [] name = "bool" ->
            IF v.t = "str" /\ v.s \in TrueTexts \cup FalseTexts
            THEN [ok |-> TRUE, v |-> BoolV(v.s \in TrueTexts)]
            ELSE [ok |-> FALSE, v |-> v]
      [] name = "str" -> [ok |-> TRUE, v |-> v]
      [] OTHER -> [ok |-> FALSE, v |-> v]

\* A column read with no declared dtype: the parser infers int64, then
\* float64, then bool, and keeps the texts otherwise.
CsvInfer(cells) ==
    LET All(name) == \A i \in 1..Len(cells) : CsvField(cells[i], name).ok
        As(name) == [i \in 1..Len(cells) |-> CsvField(cells[i], name).v]
    IN  IF All("int") THEN As("int")
        ELSE IF All("float") THEN As("float")
        ELSE IF All("bool") THEN As("bool")
        ELSE cells

\* read_csv: [ok |-> FALSE] when it raises.
read_csv(table, dt) ==
    LET Declared(c) == dt.t = "dict" /\ DictHas(dt.d, table[c].k)
        Name(c) == DtypeName(DictGet(dt.d, table[c].k))
        Fails(c) == /\ Declared(c)
                    /\ \E i \in 1..Len(table[c].v) : ~CsvField(table[c].v[i], Name(c)).ok
    IN  IF Truthy(dt) /\ dt.t # "dict" THEN [ok |-> FALSE, df |-> <<>>]
        ELSE IF \E c \in 1..Len(table) : Fails(c) THEN [ok |-> FALSE, df |-> <<>>]
        ELSE [ok |-> TRUE,
              df |-> [c \in 1..Len(table) |->
                        [k |-> table[c].k,
                         v |-> IF Declared(c)
                               THEN [i \in 1..Len(table[c].v) |->
                                        CsvField(table[c].v[i], Name(c)).v]
                               ELSE CsvInfer(table[c].v)]]]

-----------------------------------------------------------------------------
(***************************************************************************)
(* Both converters: records, reshaping, serialization                      *)
(***************************************************************************)

\* The records of the rows from the last row to the first.
to_dict_records_reversed(d) ==
    IF d = <<>> THEN <<>>
    ELSE [i \in 1..Len(d[1].v) |->
            [c \in 1..Len(d) |-> [k |-> d[c].k, v |-> d[c].v[Len(d[1].v) + 1 - i]]]]

\* df.to_dict(orient="records")
to_dict_records(d) ==
    IF d = <<>> THEN <<>>
    ELSE [i \in 1..Len(d[1].v) |-> [c \in 1..Len(d) |-> [k |-> d[c].k, v |-> d[c].v[i]]]]

\* The loop "for element in raw_json": the outcomes [ok, docs].
RECURSIVE ReshapeRecords(_, _)
ReshapeRecords(rows, nulls) ==
    IF rows = <<>> THEN {[ok |-> TRUE, docs |-> <<>>]}
    ELSE LET u == unflatten_dic(Head(rows))
         IN  IF ~u.ok THEN {[ok |-> FALSE, docs |-> <<>>]}
             ELSE UNION { IF ~m.ok THEN {[ok |-> FALSE, docs |-> <<>>]}
                          ELSE {[ok |-> r.ok, docs |-> <<DictV(m.d)>> \o r.docs]
                                : r \in ReshapeRecords(Tail(rows), nulls)}
                          : m \in merge_lists(u.d, nulls) }

\* Whether json.dumps can encode the value: every key of the documents is a
\* string, so skipkeys has nothing to skip, and a value that is no str, int,
\* float, bool, None, dict or list raises TypeError.
RECURSIVE Serializable(_)
Serializable(v) ==
    CASE v.t = "dict" -> \A i \in 1..Len(v.d) : Serializable(v.d[i].v)
      [] v.t = "list" -> \A i \in 1..Len(v.l) : Serializable(v.l[i])
      [] v.t \in {"ts", "type"} -> FALSE
      [] OTHER -> TRUE

\* json.dumps(json_data, indent=4, skipkeys=True): [ok |-> FALSE] when it raises.
json_dumps(data) ==
    IF Serializable(data) THEN [ok |-> TRUE, data |-> data]
    ELSE [ok |-> FALSE, data |-> None]

-----------------------------------------------------------------------------
(***************************************************************************)
(* excel_to_json and csv_to_json, step by step                             *)
(***************************************************************************)

\* The except clause of both converters: the error is logged and re-raised.
Raise(lg, where) ==
    /\ log' = Append(lg, LogRec("error", "Error converting", ""))
    /\ error' = where
    /\ cpc' = "raised"

\* df = pd.read_excel(excel_path, skiprows=skiprows)
ReadExcel ==
    /\ fn = "excel" /\ cpc = "called"
    /\ df' = sheet
    /\ cpc' = "read"
    /\ UNCHANGED <<fn, sheet, field_mapping, datatypes_file, remove_nulls, root_element,
                   datatypes, log, raw_json, out_file, error, mapvars, reshapevars, bufvars,
                   widgetvars, loadvars>>

\* if field_mapping: ... df = mapped_df
FieldMappingStep ==
    /\ fn = "excel" /\ cpc = "read"
    /\ LET r == ApplyFieldMapping(df, field_mapping)
       IN  /\ df' = r.df
           /\ log' = log \o r.log
    /\ cpc' = "mapped"
    /\ UNCHANGED <<fn, sheet, field_mapping, datatypes_file, remove_nulls, root_element,
                   datatypes, raw_json, out_file, error, mapvars, reshapevars, bufvars,
                   widgetvars, loadvars>>

\* excel_to_json: datatypes = None; if datatypes_file: try ... except
LoadSchema ==
    /\ fn = "excel" /\ cpc = "mapped"
    /\ LET r == LoadDatatypesStep(datatypes_file)
       IN  /\ datatypes' = r.datatypes
           /\ log' = log \o r.log
    /\ cpc' = "loaded"
    /\ UNCHANGED <<fn, sheet, field_mapping, datatypes_file, remove_nulls, root_element,
                   df, raw_json, out_file, error, mapvars, reshapevars, bufvars,
                   widgetvars, loadvars>>

\* if datatypes: for col, dtype in datatypes.items(): ...
\* A loaded value that is no dict has no items(): the call ends in the
\* except clause.
DatatypesStep ==
    /\ fn = "excel" /\ cpc = "loaded"
    /\ IF ~Truthy(datatypes)
       THEN /\ cpc' = "coerced"
            /\ UNCHANGED <<df, log, error>>
       ELSE IF datatypes.t # "dict"
       THEN /\ Raise(log, "items")
            /\ UNCHANGED df
       ELSE LET r == ApplyDatatypes(df, datatypes.d)
            IN  /\ df' = r.df
                /\ log' = log \o r.log
                /\ cpc' = "coerced"
                /\ UNCHANGED error
    /\ UNCHANGED <<fn, sheet, field_mapping, datatypes_file, remove_nulls, root_element,
                   datatypes, raw_json, out_file, mapvars, reshapevars, bufvars,
                   widgetvars, loadvars>>

\* csv_to_json: datatypes = None; if datatypes_file: try ... except
CsvLoadSchema ==
    /\ fn = "csv" /\ cpc = "called"
    /\ LET r == LoadDatatypesStep(datatypes_file)
       IN  /\ datatypes' = r.datatypes
           /\ log' = log \o r.log
    /\ cpc' = "loaded"
    /\ UNCHANGED <<fn, sheet, field_mapping, datatypes_file, remove_nulls, root_element,
                   df, raw_json, out_file, error, mapvars, reshapevars, bufvars,
                   widgetvars, loadvars>>

\* df = pd.read_csv(csv_path, sep=";", dtype=datatypes, decimal=',') when
\* datatypes is truthy, without dtype otherwise.
CsvRead ==
    /\ fn = "csv" /\ cpc = "loaded"
    /\ LET r == read_csv(sheet, IF Truthy(datatypes) THEN datatypes ELSE None)
       IN  IF r.ok
           THEN /\ df' = r.df
                /\ cpc' = "read"
                /\ UNCHANGED <<log, error>>
           ELSE /\ Raise(log, "read_csv")
                /\ UNCHANGED df
    /\ UNCHANGED <<fn, sheet, field_mapping, datatypes_file, remove_nulls, root_element,
                   datatypes, raw_json, out_file, mapvars, reshapevars, bufvars,
                   widgetvars, loadvars>>

\* raw_json = df.to_dict(orient="records"); for element in raw_json:
\* unflatten_dic(element); merge_lists(element, remove_nulls)
Reshape ==
    /\ \/ fn = "excel" /\ cpc = "coerced"
       \/ fn = "csv" /\ cpc = "read"
    /\ \E r \in ReshapeRecords(to_dict_records(df), remove_nulls) :
           IF r.ok
           THEN /\ raw_json' = r.docs
                /\ cpc' = "reshaped"
                /\ UNCHANGED <<log, error>>
           ELSE /\ Raise(log, "reshape")
                /\ UNCHANGED raw_json
    /\ UNCHANGED <<fn, sheet, field_mapping, datatypes_file, remove_nulls, root_element,
                   df, datatypes, out_file, mapvars, reshapevars, bufvars,
                   widgetvars, loadvars>>

\* json_data = {root_element: raw_json}
json_data == DictV(<<[k |-> root_element, v |-> ListV(raw_json)]>>)

\* with io.open(output_path, "w") as file: file.write(json.dumps(...))
\* The file is opened, and so emptied, before json.dumps runs.
WriteJson ==
    /\ cpc = "reshaped"
    /\ LET r == json_dumps(json_data)
       IN  IF r.ok
           THEN /\ out_file' = [state |-> "written", data |-> r.data]
                /\ cpc' = "returned"
                /\ UNCHANGED <<log, error>>
           ELSE /\ out_file' = [state |-> "empty", data |-> None]
                /\ Raise(log, "serialize")
    /\ UNCHANGED <<fn, sheet, field_mapping, datatypes_file, remove_nulls, root_element,
                   df, datatypes, raw_json, mapvars, reshapevars, bufvars,
                   widgetvars, loadvars>>

-----------------------------------------------------------------------------
(***************************************************************************)
(* core/logging.py: log_records and the MemoryHandler                      *)
(*                                                                         *)
(* The handler has no level of its own and the logger is set to DEBUG, so  *)
(* every record logged reaches emit.  logging.Handler.handle holds the     *)
(* handler's lock around emit.                                             *)
(***************************************************************************)

\* "Keep only the last 1000 records": if len(log_records) > 1000
MaxLogRecords == 1000

\* A buffer that drops the record just appended when it is over the limit.
AppendedKeepingOldest(records, rec) ==
    IF Len(Append(records, rec)) > MaxLogRecords THEN records
    ELSE Append(records, rec)

\* MemoryHandler.emit: log_records.append(...); over the limit, pop(0).
Appended(records, rec) ==
    IF Len(Append(records, rec)) > MaxLogRecords
    THEN Tail(Append(records, rec))
    ELSE Append(records, rec)

\* Bounds of the log buffer's runs: how many records past the limit are
\* emitted between two clears, how many records the buffer holds when it is
\* cleared before it is full, and how many times it is cleared.
MaxOver == 1
MaxHeld == 1
MaxClears == 1

\* One record is logged (by any logger.debug/info/warning/error call).
Emit ==
    /\ since < MaxLogRecords + MaxOver
    /\ emitted' = emitted + 1
    /\ since' = since + 1
    /\ log_records' = Appended(log_records, emitted + 1)
    /\ UNCHANGED <<clears, mapvars, reshapevars, convvars, loadvars, widgetvars>>

\* clear_logs(): log_records.clear(); logger.info("Logs cleared")
ClearLogs ==
    /\ clears < MaxClears
    /\ Len(log_records) \in {MaxHeld, MaxLogRecords}
    /\ clears' = clears + 1
    /\ emitted' = emitted + 1
    /\ since' = 1
    /\ log_records' = Appended(<<>>, emitted + 1)
    /\ UNCHANGED <<mapvars, reshapevars, convvars, loadvars, widgetvars>>

-----------------------------------------------------------------------------
(***************************************************************************)
(* gui/components: MappingWidget, MappingTable, ChipContainer              *)
(*                                                                         *)
(* Qt delivers a signal to a directly connected slot inside emit(), so a   *)
(* handler runs with the slots of the signals it emits.                    *)
(***************************************************************************)

\* The headers of the source files loaded into the widget.
SourceFieldLists == {<<"city", "PLZ">>, <<"City">>}

\* The target fields the widget finds in a schema text; none when the text
\* holds no "field": type pair.
SchemaTargets == {<<>>, <<"city">>, <<"city", "zip_code">>}

\* The mappings an imported mapping file may hold: empty, of a row of the
\* table, of two rows to one source, of a field that is no row.
ImportedMappings ==
    {<<>>,
     <<[k |-> "city", v |-> "PLZ"]>>,
     <<[k |-> "city", v |-> "city"], [k |-> "zip_code", v |-> "city"]>>,
     <<[k |-> "country", v |-> "Land"]>>}

\* MappingService.auto_map_fields(target_fields, source_fields) as one
\* function: the loop over the targets from the n-th on, m the mapping so
\* far (a call starts with n = 1 and "mapping = {}").
RECURSIVE auto_map_fields(_, _, _, _)
auto_map_fields(targets, sources, n, m) ==
    IF n > Len(targets) THEN m
    ELSE LET target == targets[n]
             best == BestMatch(target, sources)
             m1 == IF HasExactMatch(target, sources) THEN DictSet(m, target, target)
                   ELSE IF HasCaseMatch(target, sources)
                   THEN DictSet(m, target, FirstCaseMatch(target, sources))
                   ELSE IF Accepted(best) THEN DictSet(m, target, best.match)
                   ELSE m
         IN  auto_map_fields(targets, sources, n + 1, m1)

\* The loop "for source_field in mapping.values(): if source_field in
\* self.hidden_chips ...: self.hidden_chips[source_field].setVisible(False)"
\* of on_mapping_changed, auto_map_fields and set_mapping.
HideMapped(hid, m) == hid \cup ({m[i].v : i \in 1..Len(m)} \cap Range(chips))

\* The cells of column 2 after "for target, source in mapping.items(): for
\* row ...: if item(row, 0).text() == target: setItem(row, 2, source)".
CellsSet(cs, m) ==
    [r \in 1..Len(cs) |->
        IF DictHas(m, target_rows[r]) THEN DictGet(m, target_rows[r]) ELSE cs[r]]

\* MappingWidget.load_source_fields(fields): the chips are replaced by new
\* ones, all visible.
LoadSourceFields ==
    /\ \E fields \in SourceFieldLists : chips' = fields
    /\ hidden' = {}
    /\ UNCHANGED <<target_rows, source_cells, table_mapping, mapvars, reshapevars,
                   convvars, loadvars, bufvars>>

\* MappingWidget.load_datatypes(datatypes_str), the regex having found the
\* fields `targets`: MappingTable.load_datatypes rebuilds the rows and resets
\* field_mapping.  With no match the table is left alone.  No signal is
\* emitted, no chip touched.
WidgetLoadDatatypes ==
    /\ \E targets \in SchemaTargets :
           IF targets # <<>>
           THEN /\ target_rows' = targets
                /\ source_cells' = [r \in 1..Len(targets) |-> ""]
                /\ table_mapping' = <<>>
           ELSE UNCHANGED <<target_rows, source_cells, table_mapping>>
    /\ UNCHANGED <<chips, hidden, mapvars, reshapevars, convvars, loadvars, bufvars>>

\* MappingTable.dropEvent: a chip, dragged while it is visible, is dropped on
\* a row.  mapping_changed hides the mapped chips (on_mapping_changed), then
\* field_unmapped shows the chip of the row's former source
\* (on_field_unmapped).
DropEvent ==
    /\ \E source \in Range(chips) \ hidden, row \in 1..Len(target_rows) :
           /\ source_cells' = [source_cells EXCEPT ![row] = source]
           /\ table_mapping' = DictSet(table_mapping, target_rows[row], source)
           /\ hidden' = HideMapped(hidden, table_mapping') \ {source_cells[row]}
    /\ UNCHANGED <<chips, target_rows, mapvars, reshapevars, convvars, loadvars, bufvars>>

\* MappingTable.show_context_menu, "Remove Mapping" chosen on a mapped row:
\* mapping_changed, then field_unmapped for the row's source.
RemoveMapping ==
    /\ \E row \in 1..Len(target_rows) :
           /\ source_cells[row] # ""
           /\ source_cells' = [source_cells EXCEPT ![row] = ""]
           /\ table_mapping' = DictDel(table_mapping, target_rows[row])
           /\ hidden' = HideMapped(hidden, table_mapping') \ {source_cells[row]}
    /\ UNCHANGED <<chips, target_rows, mapvars, reshapevars, convvars, loadvars, bufvars>>

\* MappingWidget.clear_mapping -> MappingTable.clear_mapping: mapping_changed
\* with the empty mapping, then field_unmapped for every old source.
ClearMapping ==
    /\ source_cells' = [r \in 1..Len(target_rows) |-> ""]
    /\ table_mapping' = <<>>
    /\ hidden' = hidden \ {table_mapping[i].v : i \in 1..Len(table_mapping)}
    /\ UNCHANGED <<chips, target_rows, mapvars, reshapevars, convvars, loadvars, bufvars>>

\* MappingWidget.auto_map_fields: the service maps the rows' targets to the
\* texts of all chips; the result replaces field_mapping.
WidgetAutoMap ==
    /\ LET m == auto_map_fields(target_rows, chips, 1, <<>>)
       IN  /\ source_cells' = CellsSet(source_cells, m)
           /\ table_mapping' = m
           /\ hidden' = HideMapped(hidden, m)
    /\ UNCHANGED <<chips, target_rows, mapvars, reshapevars, convvars, loadvars, bufvars>>

\* MappingWidget.set_mapping(mapping), as import_mapping calls it:
\* clear_mapping(), then the given mapping replaces field_mapping.
SetMapping ==
    /\ \E m \in ImportedMappings :
           /\ source_cells' = CellsSet([r \in 1..Len(target_rows) |-> ""], m)
           /\ table_mapping' = m
           /\ hidden' = HideMapped(
                  hidden \ {table_mapping[i].v : i \in 1..Len(table_mapping)}, m)
    /\ UNCHANGED <<chips, target_rows, mapvars, reshapevars, convvars, loadvars, bufvars>>

-----------------------------------------------------------------------------
(***************************************************************************)
(* Inputs and specifications                                               *)
(***************************************************************************)

vars == <<mapvars, reshapevars, convvars, loadvars, bufvars, widgetvars>>

\* Bounds of the auto-mapper's inputs.
MaxTargets == 2
MaxSources == 2

TargetNames == {"city", "zip_code", "first_name", "unrelated_x"}

SourceNames == {"city", "City", "place", "Stadt", "PLZ", "Vorname",
                "totally_different_y", "city_zip", "zip_city", "city_zip_code",
                "zip_a_b_c_d_e_f_g_h"}

\* The target names in the order they are listed in.
TargetOrder == <<"city", "zip_code", "first_name", "unrelated_x">>

\* The target lists: at most n different names, in the order of TargetOrder.
\* Every pass of the loop over target_fields reads its own target and
\* source_fields only, so one order of the targets stands for all.
TargetLists(n) ==
    {SelectSeq(TargetOrder, LAMBDA name : name \in S) :
        S \in {T \in SUBSET TargetNames : Cardinality(T) <= n}}

\* Lists of at most n names of S.
ListsUpTo(S, n) == UNION {[1..m -> S] : m \in 0..n}

\* Bound of the reshaper's input: the number of keys of the record.
MaxKeys == 2

KeyUniverse == {"id", "a", "b", "a.b", "a.c", "a.b.c", "a.bc"}

ScalarUniverse == {IntV(1), StrV("x"), NaN}

\* The flat records of at most n keys: distinct keys, scalar values.
FlatRecords(n) ==
    UNION { {r \in [1..m -> [k : KeyUniverse, v : ScalarUniverse]] :
                \A i, j \in 1..m : i # j => r[i].k # r[j].k}
            : m \in 0..n }

\* Bound of the reshaper's input: the length of a sequence in a record.
MaxLen == 3

\* The sequences of at most n elements of S.
SeqsUpTo(S, n) == UNION {[1..m -> S] : m \in 0..n}

\* The elements of the child sequences y and z: numbers and a boolean,
\* strings.
YElements == {IntV(1), IntV(2), BoolV(TRUE)}
ZElements == {StrV("a"), StrV("b")}

\* The nested values merge_lists may meet under a key: a mapping whose
\* children y, or y and z, are sequences (of equal lengths or not); a mapping
\* with no child; a mapping whose child sequence holds a null; a mapping with
\* scalar children, one of them null; a mapping holding a mapping with no
\* child; a bare sequence, of values or of one null.
NestedValues(n) ==
    {DictV(<<[k |-> "y", v |-> ListV(y)]>>) : y \in SeqsUpTo(YElements, n)}
    \cup {DictV(<<[k |-> "y", v |-> ListV(y)], [k |-> "z", v |-> ListV(z)]>>)
            : y \in SeqsUpTo(YElements, n), z \in SeqsUpTo(ZElements, n)}
    \cup {ListV(y) : y \in SeqsUpTo(YElements, n)}
    \cup {DictV(<<>>),
          DictV(<<[k |-> "y", v |-> ListV(<<IntV(1), None>>)]>>),
          ListV(<<None>>),
          DictV(<<[k |-> "y", v |-> NaN], [k |-> "z", v |-> IntV(1)]>>),
          DictV(<<[k |-> "y", v |-> DictV(<<>>)], [k |-> "z", v |-> IntV(1)]>>)}

\* The records that hold one nested value, under the key x.
NestedRecords(n) == {<<[k |-> "x", v |-> nv]>> : nv \in NestedValues(n)}

\* Bound of the converters' input: the number of rows of the table.
NRows == 2

\* The texts a cell of the column "qty" may hold.
CellTexts == {"10", "10,5", "text1", "True", "TRUE", "false"}

\* The numbers a numeric column "qty" of a workbook may hold throughout.
CellNumbers == {IntV(10), FloatV(1050), FloatV(2000)}

\* The input tables: a column "qty" of texts, or in a workbook of one number
\* throughout, and in a workbook possibly a date column "when", which pandas
\* reads as Timestamps; and the workbook that has the header "qty" and no
\* row below it.
Sheets ==
    LET qty == {<<[k |-> "qty", v |-> c]>> : c \in [1..NRows -> {StrV(t) : t \in CellTexts}]}
                 \cup {<<[k |-> "qty", v |-> [i \in 1..NRows |-> n]]>> : n \in CellNumbers}
        when == <<[k |-> "when", v |-> [i \in 1..NRows |-> TsV("2024-01-01")]]>>
    IN  qty \cup {q \o when : q \in qty} \cup {<<[k |-> "qty", v |-> <<>>]>>}

\* The root_element arguments.
RootElements == {"data", "mapped_data"}

\* The field_mapping arguments: none, one that renames qty to amt, one whose
\* source is no column, one with both entries.
FieldMappings ==
    {<<>>, <<[k |-> "amt", v |-> "qty"]>>, <<[k |-> "amt", v |-> "nosuch"]>>,
     <<[k |-> "gone", v |-> "nosuch"], [k |-> "amt", v |-> "qty"]>>}

\* What a parser makes of the text: the exception it raises, or the value.
Fails(exc) == [ok |-> FALSE, data |-> None, exc |-> exc]
Parsed(d) == [ok |-> TRUE, data |-> d, exc |-> ""]

\* yaml.safe_load rejects the text; eval rejects it (typically with a
\* SyntaxError); neither parser is reached.
YamlFails == Fails("YAMLError")
EvalFails == Fails("SyntaxError")

\* The YAML schemas: a type for qty or none, a type for amt or none.
YamlSchemas ==
    { DictV(q \o a) :
        q \in {<<>>} \cup {<<[k |-> "qty", v |-> StrV(n)]>> : n \in {"str", "int", "float", "bool"}},
        a \in {<<>>, <<[k |-> "amt", v |-> StrV("int")]>>} }

\* The schema files: no path given, a path to no file, a file neither parser
\* reads, a YAML list, a legacy file of type objects, a YAML file with the
\* types under 'fields', and the YAML mappings.
SchemaFiles ==
    {[given |-> FALSE, exists |-> FALSE, yaml |-> YamlFails, legacy |-> EvalFails],
     [given |-> TRUE, exists |-> FALSE, yaml |-> YamlFails, legacy |-> EvalFails],
     [given |-> TRUE, exists |-> TRUE, yaml |-> YamlFails, legacy |-> EvalFails],
     [given |-> TRUE, exists |-> TRUE, yaml |-> Parsed(ListV(<<StrV("qty")>>)),
      legacy |-> EvalFails],
     [given |-> TRUE, exists |-> TRUE, yaml |-> YamlFails,
      legacy |-> Parsed(DictV(<<[k |-> "fields",
                                 v |-> DictV(<<[k |-> "qty", v |-> TypeV("int")]>>)]>>))],
     [given |-> TRUE, exists |-> TRUE,
      yaml |-> Parsed(DictV(<<[k |-> "fields",
                               v |-> DictV(<<[k |-> "qty", v |-> StrV("float")]>>)]>>)),
      legacy |-> EvalFails]}
    \cup {[given |-> TRUE, exists |-> TRUE, yaml |-> Parsed(d), legacy |-> EvalFails]
            : d \in YamlSchemas}

\* The type tags of a schema.
TypeTags == {"str", "int", "float", "bool"}

\* A type as a schema text spells it: a name in YAML, a type object in
\* legacy Python.
TypeAs(legacy, n) == IF legacy THEN TypeV(n) ELSE StrV(n)

\* The mappings a schema text may spell for the fields qty and amt.
FieldsBy(legacy) ==
    { q \o a :
        q \in {<<>>} \cup {<<[k |-> "qty", v |-> TypeAs(legacy, n)]>> : n \in TypeTags},
        a \in {<<>>} \cup {<<[k |-> "amt", v |-> TypeAs(legacy, n)]>> : n \in {"int", "str"}} }

\* The same mapping under the key 'fields'.
UnderFields(v) == DictV(<<[k |-> "fields", v |-> v]>>)

\* The same mapping under 'fields', beside the metadata keys of a schema.
WithMetadata(v) ==
    DictV(<<[k |-> "displayName", v |-> StrV("Orders")],
            [k |-> "root", v |-> StrV("orders")],
            [k |-> "fields", v |-> v]>>)

\* What a parser may make of a schema text: a mapping of fields, flat,
\* under 'fields' or under 'fields' beside metadata; or another shape: nothing (an empty text), a scalar, a
\* list, or a 'fields' key holding a list or a scalar.
ParsedShapes(legacy) ==
    {DictV(f) : f \in FieldsBy(legacy)}
    \cup {UnderFields(DictV(f)) : f \in FieldsBy(legacy)}
    \cup {WithMetadata(DictV(f)) : f \in FieldsBy(legacy)}
    \cup {None, StrV("qty"), ListV(<<StrV("qty"), StrV("int")>>),
          UnderFields(ListV(<<StrV("qty")>>)), UnderFields(StrV("int"))}

\* The schema files load_datatypes is called on: no file at the path; a
\* text that is YAML; a text that is no YAML but legacy Python (its types
\* written as type objects) or that eval rejects too.
LoadFiles ==
    {[given |-> TRUE, exists |-> FALSE, yaml |-> YamlFails, legacy |-> EvalFails]}
    \cup {[given |-> TRUE, exists |-> TRUE, yaml |-> Parsed(d), legacy |-> EvalFails]
            : d \in ParsedShapes(FALSE)}
    \cup {[given |-> TRUE, exists |-> TRUE, yaml |-> YamlFails, legacy |-> Parsed(d)]
            : d \in ParsedShapes(TRUE)}
    \cup {[given |-> TRUE, exists |-> TRUE, yaml |-> YamlFails, legacy |-> Fails(e)]
            : e \in {"SyntaxError", "NameError"}}

\* A call excel_to_json(...) or csv_to_json(...); only excel_to_json takes a
\* field mapping, and only a workbook holds date cells.
Init ==
    /\ fn \in {"excel", "csv"}
    /\ sheet \in Sheets
    /\ field_mapping \in FieldMappings
    /\ fn = "csv" => /\ field_mapping = <<>>
                     /\ \A c \in 1..Len(sheet) : sheet[c].k # "when"
                     /\ \A c \in 1..Len(sheet) : is_string_dtype(sheet[c].v)
    /\ datatypes_file \in SchemaFiles
    /\ remove_nulls \in BOOLEAN
    /\ root_element \in RootElements
    /\ df = <<>>
    /\ datatypes = None
    /\ log = <<>>
    /\ raw_json = <<>>
    /\ out_file = [state |-> "absent", data |-> None]
    /\ error = "none"
    /\ cpc = "called"
    /\ target_fields = <<>> /\ source_fields = <<>> /\ mapping = <<>>
    /\ ti = 1 /\ matched_by = <<>> /\ mpc = "idle" /\ calls = <<>>
    /\ record = <<>> /\ element = <<>> /\ strip_nulls = FALSE /\ rpc = "idle"
    /\ schema_file = [given |-> FALSE, exists |-> FALSE, yaml |-> YamlFails,
                      legacy |-> EvalFails]
    /\ loaded = None /\ lpc = "idle"
    /\ log_records = <<>> /\ emitted = 0 /\ since = 0 /\ clears = 0
    /\ chips = <<>> /\ hidden = {} /\ target_rows = <<>> /\ source_cells = <<>>
    /\ table_mapping = <<>>

Next ==
    \/ ReadExcel
    \/ FieldMappingStep
    \/ LoadSchema
    \/ DatatypesStep
    \/ CsvLoadSchema
    \/ CsvRead
    \/ Reshape
    \/ WriteJson

Spec == Init /\ [][Next]_vars

\* A call auto_map_fields(target_fields, source_fields): mapping = {}.
MapInit ==
    /\ target_fields \in TargetLists(MaxTargets)
    /\ source_fields \in ListsUpTo(SourceNames, MaxSources)
    /\ mapping = <<>>
    /\ ti = 1
    /\ matched_by = <<>>
    /\ mpc = "loop"
    /\ calls = <<>>
    /\ record = <<>> /\ element = <<>> /\ strip_nulls = FALSE /\ rpc = "idle"
    /\ fn = "none" /\ sheet = <<>> /\ field_mapping = <<>>
    /\ datatypes_file = [given |-> FALSE, exists |-> FALSE, yaml |-> YamlFails,
                         legacy |-> EvalFails]
    /\ remove_nulls = FALSE /\ root_element = "data"
    /\ df = <<>> /\ datatypes = None /\ log = <<>> /\ raw_json = <<>>
    /\ out_file = [state |-> "absent", data |-> None]
    /\ error = "none" /\ cpc = "idle"
    /\ schema_file = [given |-> FALSE, exists |-> FALSE, yaml |-> YamlFails,
                      legacy |-> EvalFails]
    /\ loaded = None /\ lpc = "idle"
    /\ log_records = <<>> /\ emitted = 0 /\ since = 0 /\ clears = 0
    /\ chips = <<>> /\ hidden = {} /\ target_rows = <<>> /\ source_cells = <<>>
    /\ table_mapping = <<>>

MapNext ==
    \/ ExactMatch
    \/ CaseInsensitiveMatch
    \/ FuzzyMatch
    \/ AutoMapReturn

SpecMap == MapInit /\ [][MapNext]_vars

\* A service called again and again: at most MaxCalls calls, their arguments
\* drawn from a few lists that meet every matching strategy.
MaxCalls == 3

CallTargets == {<<"city">>, <<"city", "zip_code">>}

CallSources == {<<"city">>, <<"City">>, <<"city_zip", "PLZ">>}

CallsInit ==
    /\ target_fields \in CallTargets
    /\ source_fields \in CallSources
    /\ mapping = <<>>
    /\ ti = 1
    /\ matched_by = <<>>
    /\ mpc = "loop"
    /\ calls = <<>>
    /\ record = <<>> /\ element = <<>> /\ strip_nulls = FALSE /\ rpc = "idle"
    /\ fn = "none" /\ sheet = <<>> /\ field_mapping = <<>>
    /\ datatypes_file = [given |-> FALSE, exists |-> FALSE, yaml |-> YamlFails,
                         legacy |-> EvalFails]
    /\ remove_nulls = FALSE /\ root_element = "data"
    /\ df = <<>> /\ datatypes = None /\ log = <<>> /\ raw_json = <<>>
    /\ out_file = [state |-> "absent", data |-> None]
    /\ error = "none" /\ cpc = "idle"
    /\ schema_file = [given |-> FALSE, exists |-> FALSE, yaml |-> YamlFails,
                      legacy |-> EvalFails]
    /\ loaded = None /\ lpc = "idle"
    /\ log_records = <<>> /\ emitted = 0 /\ since = 0 /\ clears = 0
    /\ chips = <<>> /\ hidden = {} /\ target_rows = <<>> /\ source_cells = <<>>
    /\ table_mapping = <<>>

NextCall ==
    /\ Len(calls) < MaxCalls
    /\ \E targets \in CallTargets, sources \in CallSources : AutoMapCall(targets, sources)

CallsNext ==
    \/ ExactMatch
    \/ CaseInsensitiveMatch
    \/ FuzzyMatch
    \/ AutoMapReturn
    \/ NextCall

SpecCalls == CallsInit /\ [][CallsNext]_vars

\* One record handed to unflatten_dic and then to merge_lists: a flat record
\* of scalars, or a record holding a nested value.
ReshapeInit ==
    /\ record \in FlatRecords(MaxKeys) \cup NestedRecords(MaxLen)
    /\ element = record
    /\ strip_nulls \in BOOLEAN
    /\ rpc = "start"
    /\ target_fields = <<>> /\ source_fields = <<>> /\ mapping = <<>>
    /\ ti = 1 /\ matched_by = <<>> /\ mpc = "idle" /\ calls = <<>>
    /\ fn = "none" /\ sheet = <<>> /\ field_mapping = <<>>
    /\ datatypes_file = [given |-> FALSE, exists |-> FALSE, yaml |-> YamlFails,
                         legacy |-> EvalFails]
    /\ remove_nulls = FALSE /\ root_element = "data"
    /\ df = <<>> /\ datatypes = None /\ log = <<>> /\ raw_json = <<>>
    /\ out_file = [state |-> "absent", data |-> None]
    /\ error = "none" /\ cpc = "idle"
    /\ schema_file = [given |-> FALSE, exists |-> FALSE, yaml |-> YamlFails,
                      legacy |-> EvalFails]
    /\ loaded = None /\ lpc = "idle"
    /\ log_records = <<>> /\ emitted = 0 /\ since = 0 /\ clears = 0
    /\ chips = <<>> /\ hidden = {} /\ target_rows = <<>> /\ source_cells = <<>>
    /\ table_mapping = <<>>

ReshapeNext ==
    \/ Unflatten
    \/ MergeLists

SpecReshape == ReshapeInit /\ [][ReshapeNext]_vars

\* A call load_datatypes(file).
LoadInit ==
    /\ schema_file \in LoadFiles
    /\ loaded = None
    /\ lpc = "called"
    /\ target_fields = <<>> /\ source_fields = <<>> /\ mapping = <<>>
    /\ ti = 1 /\ matched_by = <<>> /\ mpc = "idle" /\ calls = <<>>
    /\ record = <<>> /\ element = <<>> /\ strip_nulls = FALSE /\ rpc = "idle"
    /\ fn = "none" /\ sheet = <<>> /\ field_mapping = <<>>
    /\ datatypes_file = [given |-> FALSE, exists |-> FALSE, yaml |-> YamlFails,
                         legacy |-> EvalFails]
    /\ remove_nulls = FALSE /\ root_element = "data"
    /\ df = <<>> /\ datatypes = None /\ log = <<>> /\ raw_json = <<>>
    /\ out_file = [state |-> "absent", data |-> None]
    /\ error = "none" /\ cpc = "idle"
    /\ log_records = <<>> /\ emitted = 0 /\ since = 0 /\ clears = 0
    /\ chips = <<>> /\ hidden = {} /\ target_rows = <<>> /\ source_cells = <<>>
    /\ table_mapping = <<>>

LoadNext ==
    \/ CallLoadDatatypes

SpecLoad == LoadInit /\ [][LoadNext]_vars

\* The log buffer of a freshly imported module: log_records = [].
BufferInit ==
    /\ log_records = <<>> /\ emitted = 0 /\ since = 0 /\ clears = 0
    /\ target_fields = <<>> /\ source_fields = <<>> /\ mapping = <<>>
    /\ ti = 1 /\ matched_by = <<>> /\ mpc = "idle" /\ calls = <<>>
    /\ record = <<>> /\ element = <<>> /\ strip_nulls = FALSE /\ rpc = "idle"
    /\ fn = "none" /\ sheet = <<>> /\ field_mapping = <<>>
    /\ datatypes_file = [given |-> FALSE, exists |-> FALSE, yaml |-> YamlFails,
                         legacy |-> EvalFails]
    /\ remove_nulls = FALSE /\ root_element = "data"
    /\ df = <<>> /\ datatypes = None /\ log = <<>> /\ raw_json = <<>>
    /\ out_file = [state |-> "absent", data |-> None]
    /\ error = "none" /\ cpc = "idle"
    /\ schema_file = [given |-> FALSE, exists |-> FALSE, yaml |-> YamlFails,
                      legacy |-> EvalFails]
    /\ loaded = None /\ lpc = "idle"
    /\ chips = <<>> /\ hidden = {} /\ target_rows = <<>> /\ source_cells = <<>>
    /\ table_mapping = <<>>

BufferNext ==
    \/ Emit
    \/ ClearLogs

SpecBuffer == BufferInit /\ [][BufferNext]_vars

\* A MappingWidget as __init__ leaves it: no chip, no row, no mapping.
WidgetInit ==
    /\ chips = <<>> /\ hidden = {} /\ target_rows = <<>> /\ source_cells = <<>>
    /\ table_mapping = <<>>
    /\ target_fields = <<>> /\ source_fields = <<>> /\ mapping = <<>>
    /\ ti = 1 /\ matched_by = <<>> /\ mpc = "idle" /\ calls = <<>>
    /\ record = <<>> /\ element = <<>> /\ strip_nulls = FALSE /\ rpc = "idle"
    /\ fn = "none" /\ sheet = <<>> /\ field_mapping = <<>>
    /\ datatypes_file = [given |-> FALSE, exists |-> FALSE, yaml |-> YamlFails,
                         legacy |-> EvalFails]
    /\ remove_nulls = FALSE /\ root_element = "data"
    /\ df = <<>> /\ datatypes = None /\ log = <<>> /\ raw_json = <<>>
    /\ out_file = [state |-> "absent", data |-> None]
    /\ error = "none" /\ cpc = "idle"
    /\ schema_file = [given |-> FALSE, exists |-> FALSE, yaml |-> YamlFails,
                      legacy |-> EvalFails]
    /\ loaded = None /\ lpc = "idle"
    /\ log_records = <<>> /\ emitted = 0 /\ since = 0 /\ clears = 0

WidgetNext ==
    \/ LoadSourceFields
    \/ WidgetLoadDatatypes
    \/ DropEvent
    \/ RemoveMapping
    \/ ClearMapping
    \/ WidgetAutoMap
    \/ SetMapping

SpecWidget == WidgetInit /\ [][WidgetNext]_vars

-----------------------------------------------------------------------------
(***************************************************************************)
(* Properties of the auto-mapper (checked under SpecMap)                   *)
(***************************************************************************)

\* The targets the loop has been through.
Processed == 1..(ti - 1)

\* Target number n found no exact and no case-insensitive match.
ReachedFuzzy(n) == n \in Processed /\ matched_by[n] \notin {"exact", "case"}

\* The score of one source for one target: 1.0 for a special-case spelling,
\* 0.9 for a direct synonym, the token-overlap score otherwise.
SourceScore(target, source) ==
    LET tv == target_variations(target)
        sv == source_variations(source)
    IN  IF IsSpecialCase(target, source) THEN SpecialScore
        ELSE IF IsDirectVariation(target, source) THEN DirectScore
        ELSE IF (tv \cap sv) # {} THEN TokenScore(tv, sv)
        ELSE ZeroScore

\* a = b on fractions
ScoreEq(a, b) == a[1] * b[2] = b[1] * a[2]

\* The place of the first occurrence of a name among the sources.
FirstIndex(source) ==
    CHOOSE j \in 1..Len(source_fields) :
        /\ source_fields[j] = source
        /\ \A i \in 1..(j - 1) : source_fields[i] # source

\* C5: a target that reaches the fuzzy stage and has an accepted special-case
\* spelling somewhere among the sources is mapped to an accepted spelling,
\* wherever that spelling stands in the source list.
C5_SpecialCasePriority ==
    \A n \in Processed :
        LET t == target_fields[n]
        IN  (/\ ReachedFuzzy(n)
             /\ \E i \in 1..Len(source_fields) : IsSpecialCase(t, source_fields[i]))
            => /\ DictHas(mapping, t)
               /\ IsSpecialCase(t, DictGet(mapping, t))

\* C6: the source selected for a target that reaches the fuzzy stage is a
\* best-scoring one: no source of the list scores strictly higher.
C6_SelectedIsBest ==
    \A n \in Processed :
        LET t == target_fields[n]
        IN  (ReachedFuzzy(n) /\ DictHas(mapping, t))
            => \A i \in 1..Len(source_fields) :
                   ~ScoreGt(SourceScore(t, source_fields[i]),
                            SourceScore(t, DictGet(mapping, t)))

Returns(targets, sources, result) ==
    (mpc = "returned" /\ target_fields = targets /\ source_fields = sources)
        => mapping = result

\* C18: the reference examples: zip_code is mapped to PLZ, first_name to
\* Vorname, and unrelated_x is not mapped to totally_different_y.
C18_ReferenceExamples ==
    /\ Returns(<<"zip_code">>, <<"PLZ">>, <<[k |-> "zip_code", v |-> "PLZ"]>>)
    /\ Returns(<<"first_name">>, <<"Vorname">>, <<[k |-> "first_name", v |-> "Vorname"]>>)
    /\ Returns(<<"unrelated_x">>, <<"totally_different_y">>, <<>>)

\* The call with first_name and Vorname has returned its mapping.
C18_Witness ==
    /\ mpc = "returned"
    /\ target_fields = <<"first_name">> /\ source_fields = <<"Vorname">>
    /\ mapping = <<[k |-> "first_name", v |-> "Vorname"]>>

\* The token score as a fraction: the common variations over the larger of
\* the two variation sets, times 1.5 when more than one is common.
OverlapScore(target, source) ==
    LET tv == target_variations(target)
        sv == source_variations(source)
        common == Cardinality(tv \cap sv)
        larger == IF Cardinality(tv) >= Cardinality(sv) THEN Cardinality(tv)
                  ELSE Cardinality(sv)
    IN  IF common > 1 THEN <<3 * common, 2 * larger>> ELSE <<common, larger>>

\* score > 0.3 on a fraction
AboveThreshold(score) == 10 * score[1] > 3 * score[2]

\* C19: in the result of a call, a target with no exact and no
\* case-insensitive match that is mapped by token score is mapped to a
\* source whose token score is above 0.3; and a target for which no source
\* is a special-case spelling or a direct synonym, and no source has a token
\* score above 0.3, is absent from the result.
C19_StrictThreshold ==
    mpc = "returned" =>
    \A n \in Processed :
        LET t == target_fields[n]
        IN  ReachedFuzzy(n) =>
              /\ matched_by[n] = "token" =>
                    /\ DictHas(mapping, t)
                    /\ AboveThreshold(OverlapScore(t, DictGet(mapping, t)))
              /\ (\A i \in 1..Len(source_fields) :
                      /\ ~IsSpecialCase(t, source_fields[i])
                      /\ ~IsDirectVariation(t, source_fields[i])
                      /\ ~AboveThreshold(OverlapScore(t, source_fields[i])))
                    => ~DictHas(mapping, t)

\* The keys and the values of the result.
Keys == {mapping[e].k : e \in 1..Len(mapping)}

\* C20: every key of the result is a target met so far and stands once,
\* every value is a source; and when the call returns, a target with a
\* source that equals it up to case, or that scores above 0.3 for it, is a
\* key of the result, whatever the targets before it were mapped to.
C20_WellFormedMapping ==
    /\ \A e \in 1..Len(mapping) :
           /\ \E n \in Processed : target_fields[n] = mapping[e].k
           /\ \E i \in 1..Len(source_fields) : source_fields[i] = mapping[e].v
    /\ \A e, f \in 1..Len(mapping) : mapping[e].k = mapping[f].k => e = f
    /\ mpc = "returned" =>
       \A n \in Processed :
           (\E i \in 1..Len(source_fields) :
                \/ Lower(source_fields[i]) = Lower(target_fields[n])
                \/ ScoreGt(SourceScore(target_fields[n], source_fields[i]), Threshold))
           => target_fields[n] \in Keys

\* A call has returned a result in which two targets have the same source.
C20_Witness ==
    /\ mpc = "returned"
    /\ \E e, f \in 1..Len(mapping) :
           mapping[e].k # mapping[f].k /\ mapping[e].v = mapping[f].v

-----------------------------------------------------------------------------
(***************************************************************************)
(* Properties of a service called repeatedly (checked under SpecCalls)     *)
(***************************************************************************)

\* C23: two calls of auto_map_fields with the same target list and the same
\* source list have returned the same mapping, whatever was called between
\* them.
C23_SameArgumentsSameMapping ==
    \A i, j \in 1..Len(calls) :
        (calls[i].targets = calls[j].targets /\ calls[i].sources = calls[j].sources)
        => calls[i].result = calls[j].result

\* The service has returned from three calls: the first and the third with
\* the same arguments and a mapping that is not empty, the second with other
\* arguments and another mapping.
C23_Witness ==
    /\ Len(calls) >= 3
    /\ calls[1].targets = calls[3].targets /\ calls[1].sources = calls[3].sources
    /\ calls[2].sources # calls[1].sources
    /\ calls[1].result # <<>>
    /\ calls[2].result # calls[1].result
    /\ calls[3].result = calls[1].result

-----------------------------------------------------------------------------
(***************************************************************************)
(* Properties of the reshaper (checked under SpecReshape)                  *)
(***************************************************************************)

\* The key path a dotted key spells.
Segments(key) == Split(key, ".")

\* p is a proper prefix of the path q.
IsProperPrefix(p, q) == Len(p) < Len(q) /\ SubSeq(q, 1, Len(p)) = p

\* The records a flattening of a nested document can produce: no key path
\* is the beginning of another one (a node is a leaf or a mapping, not both).
IsFlattening(rec) ==
    \A i, j \in 1..Len(rec) :
        i # j => ~IsProperPrefix(Segments(rec[i].k), Segments(rec[j].k))

Missing == [t |-> "missing"]

\* The value found by walking a key path down a nested document.
RECURSIVE Walk(_, _)
Walk(v, path) ==
    IF path = <<>> THEN v
    ELSE IF v.t = "dict" /\ DictHas(v.d, Head(path))
    THEN Walk(DictGet(v.d, Head(path)), Tail(path))
    ELSE Missing

\* C4: after unflatten_dic, every leaf of a flattened document is found by
\* walking the segments of its dotted key, at any depth (so no two keys end
\* at the same place).
C4_UnflattenInvertsFlattening ==
    (rpc = "unflattened" /\ IsFlattening(record))
    => \A i \in 1..Len(record) :
           Walk(DictV(element), Segments(record[i].k)) = record[i].v

\* No key of the record holds a dot: unflatten_dic leaves the record as it is.
Undotted(rec) == \A i \in 1..Len(rec) : Len(Segments(rec[i].k)) = 1

\* Every mapping without children found in `before` is still a mapping
\* without children in `after`, at the same place.
RECURSIVE EmptyMappingsStay(_, _)
EmptyMappingsStay(before, after) ==
    \A i \in 1..Len(before) :
        LET k == before[i].k
            v == before[i].v
        IN  v.t = "dict" =>
                /\ DictHas(after, k)
                /\ IF v.d = <<>> THEN DictGet(after, k) = DictV(<<>>)
                   ELSE DictGet(after, k).t = "dict"
                        => EmptyMappingsStay(v.d, DictGet(after, k).d)

\* C13: merge_lists never takes a nested mapping with no children for a
\* columnar table: the mapping is still an empty mapping afterwards, not an
\* array.
C13_EmptyMappingStaysMapping ==
    (rpc = "merged" /\ Undotted(record)) => EmptyMappingsStay(record, element)

\* The value is a mapping with at least one child whose children are all
\* sequences of one length.
IsColumnarTable(v) ==
    /\ v.t = "dict" /\ v.d # <<>>
    /\ \A c \in 1..Len(v.d) : v.d[c].v.t = "list"
    /\ \A c \in 1..Len(v.d) : Len(v.d[c].v.l) = Len(v.d[1].v.l)

\* The number of rows of a columnar table.
NumRows(v) == Len(v.d[1].v.l)

\* The object of row i of a columnar table: {k: seq_k[i] for every child k}.
RowObject(v, i) == DictV([c \in 1..Len(v.d) |-> [k |-> v.d[c].k, v |-> v.d[c].v.l[i]]])

\* C14: a columnar table under a key is replaced by an array
\* whose objects are exactly the row objects of the table, each distinct
\* one once.
C14_ArrayOfDistinctRows ==
    (rpc = "merged" /\ Undotted(record)) =>
        \A e \in 1..Len(record) :
            LET v == record[e].v
                out == DictGet(element, record[e].k)
            IN  IsColumnarTable(v) =>
                  /\ out.t = "list"
                  /\ Range(out.l) = {RowObject(v, i) : i \in 1..NumRows(v)}
                  /\ Len(out.l) = Cardinality(Range(out.l))

\* The record holds scalars only, under keys without a dot.
IsScalarRecord(rec) ==
    Undotted(rec) /\ \A i \in 1..Len(rec) : rec[i].v.t \notin {"dict", "list"}

IsNullValue(v) == v.t \in {"nan", "none"}

\* The entries of the record whose value is not null.
WithoutNulls(rec) == SelectSeq(rec, LAMBDA e : ~IsNullValue(e.v))

\* The record with every null value made an explicit null.
WithExplicitNulls(rec) ==
    [i \in 1..Len(rec) |-> [k |-> rec[i].k,
                            v |-> IF IsNullValue(rec[i].v) THEN None ELSE rec[i].v]]

\* C15: merge_lists on a record of scalars never raises; with remove_nulls it
\* leaves exactly the entries whose value is not null, unchanged; without, it
\* leaves every key, the null values as explicit nulls.
C15_NullHandling ==
    (rpc \in {"merged", "raised"} /\ IsScalarRecord(record)) =>
        /\ rpc = "merged"
        /\ element = IF strip_nulls THEN WithoutNulls(record)
                     ELSE WithExplicitNulls(record)

\* merge_lists with remove_nulls has gone through a record of scalars that
\* holds a null and a value that is not null.
C15_Witness ==
    /\ rpc = "merged"
    /\ strip_nulls
    /\ IsScalarRecord(record)
    /\ \E i, j \in 1..Len(record) : IsNullValue(record[i].v) /\ ~IsNullValue(record[j].v)
    /\ Len(element) = 1

\* The record holds no null value.
NullFree(rec) == \A i \in 1..Len(rec) : ~IsNullValue(rec[i].v)

\* The dicts that unflatten_dic followed by merge_lists may leave, and
\* whether every such call returns.
Reshaped(d, nulls) ==
    LET u == unflatten_dic(d)
    IN  IF ~u.ok THEN [ok |-> FALSE, ds |-> {}]
        ELSE [ok |-> \A m \in merge_lists(u.d, nulls) : m.ok,
              ds |-> {m.d : m \in merge_lists(u.d, nulls)}]

\* C24: on a record of scalars without a dotted key and without a null,
\* unflatten_dic and then merge_lists, with either setting of remove_nulls,
\* leave the keys and values as they were; and so does a second round.
C24_IdentityOnShapedScalars ==
    (IsScalarRecord(record) /\ NullFree(record)) =>
        /\ rpc # "raised"
        /\ rpc \in {"unflattened", "merged"} => element = record
        /\ rpc = "merged" =>
              /\ Reshaped(element, strip_nulls).ok
              /\ Reshaped(element, strip_nulls).ds = {record}

\* The reshaper has gone through a record of two scalars, a number and a
\* text, and left it as it was.
C24_Witness ==
    /\ rpc = "merged"
    /\ IsScalarRecord(record) /\ NullFree(record)
    /\ Len(record) = 2
    /\ record[1].v.t = "int" /\ record[2].v.t = "str"
    /\ element = record

\* A flat record of scalar values, its keys dotted or not.
IsFlatOfScalars(rec) == \A i \in 1..Len(rec) : rec[i].v.t \notin {"dict", "list"}

\* The scalar values held at any depth of a value.
RECURSIVE LeafValues(_)
LeafValues(v) ==
    IF v.t = "dict" THEN UNION {LeafValues(v.d[i].v) : i \in 1..Len(v.d)}
    ELSE IF v.t = "list" THEN UNION {LeafValues(v.l[i]) : i \in 1..Len(v.l)}
    ELSE {v}

\* The record holds a plain key and a dotted key under it.
PlainAndDotted(rec, i, j) ==
    /\ Len(Segments(rec[i].k)) = 1
    /\ Len(Segments(rec[j].k)) > 1
    /\ Segments(rec[j].k)[1] = rec[i].k

\* C29: unflatten_dic raises on no flat record of scalar values, and on a
\* record that holds a plain key and a dotted key under that key it keeps
\* both values.
C29_UnflattenCompletes ==
    IsFlatOfScalars(record) =>
        /\ rpc # "raised"
        /\ rpc = "unflattened" =>
              \A i, j \in 1..Len(record) :
                  PlainAndDotted(record, i, j) =>
                      {record[i].v, record[j].v} \subseteq LeafValues(DictV(element))

\* C30: with remove_nulls, what unflatten_dic and then merge_lists leave of
\* a record holds no null at any depth: not at the top level, not in a nested
\* mapping, not in an object of an array made of a columnar table.
C30_NoNullAtAnyDepth ==
    (strip_nulls /\ rpc = "merged") =>
        \A v \in LeafValues(DictV(element)) : ~IsNullValue(v)

-----------------------------------------------------------------------------
(***************************************************************************)
(* Properties of the converters (checked under Spec)                       *)
(***************************************************************************)

\* The DataFrame as the coercion stage of excel_to_json receives it.
Received == ApplyFieldMapping(sheet, field_mapping).df

\* excel_to_json is past its coercion stage.
PastCoercion ==
    /\ fn = "excel"
    /\ \/ cpc \in {"coerced", "reshaped", "returned"}
       \/ cpc = "raised" /\ error \in {"reshape", "serialize"}

\* Both converters: the block that loads the schema is over.
PastSchemaLoad ==
    \/ fn = "excel" /\ cpc \notin {"called", "read", "mapped"}
    \/ fn = "csv" /\ cpc # "called"

\* The loaded schema declares for the column one of the named types.
Declares(col, names) ==
    /\ datatypes.t = "dict"
    /\ DictHas(datatypes.d, col)
    /\ DictGet(datatypes.d, col).t = "str"
    /\ DictGet(datatypes.d, col).s \in names

\* A string that spells no number, with a comma or a point as decimal sign.
NotNumeric(v) == v.t = "str" /\ ParseNumber(Replace(v.s, ",", "."), ".").t = "nan"

IsNumber(v) == v.t \in {"int", "float"}

\* The log holds the record.
Logged(lvl, msg, col) == \E i \in 1..Len(log) : log[i] = LogRec(lvl, msg, col)

\* C1: in excel_to_json, a column declared int or float that holds a string
\* spelling no number gets a logged failure, and every value of the column is
\* as it was before the coercion was attempted.
C1_FailedCoercionRetainsValues ==
    PastCoercion =>
        \A c \in 1..Len(Received) :
            LET col == Received[c].k
                cells == Received[c].v
            IN  (/\ Declares(col, {"int", "float"})
                 /\ \E i \in 1..Len(cells) : NotNumeric(cells[i]))
                => /\ Logged("warning", "Could not apply dtype", col)
                   /\ DictHas(df, col)
                   /\ DictGet(df, col) = cells

\* The schema file was given and cannot be loaded: there is no such file, or
\* its text is neither valid YAML nor valid legacy text.
Unloadable ==
    /\ datatypes_file.given
    /\ \/ ~datatypes_file.exists
       \/ ~datatypes_file.yaml.ok /\ ~datatypes_file.legacy.ok

\* C2 (as stated): with a schema that cannot be loaded the conversion aborts
\* before any row is processed and never produces output.
C2_UnloadableSchemaAborts ==
    Unloadable =>
        /\ cpc \notin {"coerced", "reshaped", "returned"}
        /\ ~(fn = "csv" /\ cpc = "read")
        /\ raw_json = <<>>
        /\ out_file.state = "absent"

\* C2 (amended): with a schema that cannot be loaded the failure is logged
\* (a warning for a missing file, an error for unreadable text) and the
\* conversion goes on as if no schema had been given: no type is loaded, the
\* table is left as read, and no exception is raised on the schema's account.
C2_UnloadableSchemaIsSkipped ==
    (Unloadable /\ PastSchemaLoad) =>
        /\ datatypes = None
        /\ IF datatypes_file.exists
           THEN Logged("error", "Could not load datatypes", "")
           ELSE Logged("warning", "Datatypes file not found", "")
        /\ cpc \in {"coerced", "reshaped", "returned"}
               => df = IF fn = "excel" THEN Received ELSE read_csv(sheet, None).df
        /\ cpc = "raised" => error \in {"reshape", "serialize"}

\* A conversion given a schema that cannot be loaded has returned with its
\* output written.
C2_Witness ==
    /\ Unloadable
    /\ cpc = "returned"
    /\ out_file.state = "written"
    /\ raw_json # <<>>

\* json.dumps has been called.
Serialized == cpc = "returned" \/ (cpc = "raised" /\ error = "serialize")

\* The value with every entry json.dumps cannot encode left out.
RECURSIVE DropUnserializable(_)
DropUnserializable(v) ==
    CASE v.t = "dict" ->
            LET kept == SelectSeq(v.d, LAMBDA e : e.v.t \notin {"ts", "type"})
            IN  DictV([i \in 1..Len(kept) |->
                         [k |-> kept[i].k, v |-> DropUnserializable(kept[i].v)]])
      [] v.t = "list" ->
            LET kept == SelectSeq(v.l, LAMBDA e : e.t \notin {"ts", "type"})
            IN  ListV([i \in 1..Len(kept) |-> DropUnserializable(kept[i])])
      [] OTHER -> v

\* C3: when a value of the documents has no JSON representation, the
\* conversion still returns and the file holds the documents without it.
C3_UnserializableValueDropped ==
    (Serialized /\ ~Serializable(json_data)) =>
        /\ cpc = "returned"
        /\ out_file = [state |-> "written", data |-> DropUnserializable(json_data)]

\* C8: in excel_to_json, a column declared int or float with a value that
\* cannot be coerced gets a diagnostic and none of its values is coerced;
\* and no column is left partly coerced without a diagnostic.
C8_ColumnWideCoercion ==
    PastCoercion =>
        \A c \in 1..Len(Received) :
            LET col == Received[c].k
                cells == Received[c].v
                now == DictGet(df, col)
            IN  Declares(col, {"int", "float"}) =>
                  /\ (\E i \in 1..Len(cells) : NotNumeric(cells[i]))
                        => /\ Logged("warning", "Could not apply dtype", col)
                           /\ \A i \in 1..Len(now) : ~IsNumber(now[i])
                  /\ (/\ \E i \in 1..Len(now) : IsNumber(now[i])
                      /\ \E i \in 1..Len(now) : ~IsNumber(now[i]))
                        => Logged("warning", "Could not apply dtype", col)

Documents == DictGet(out_file.data.d, root_element).l

Spelled(v) == ParseNumber(Replace(v.s, ",", "."), ".")

\* The cell has a representation in the declared type: a text or a number
\* as a str, a text spelling an integer or a whole number as an int, a text
\* spelling a number or a number as a float.
Coercible(v, name) ==
    CASE name = "str" -> v.t \in {"str", "int", "float"}
      [] name = "int" -> \/ v.t = "str" /\ Spelled(v).t = "int"
                         \/ v.t = "int"
                         \/ v.t = "float" /\ v.c % 100 = 0
      [] name = "float" -> \/ v.t = "str" /\ Spelled(v).t \in {"int", "float"}
                           \/ v.t \in {"int", "float"}
      [] OTHER -> FALSE

\* The value of the declared type that carries the cell's value.
Native(v, name) ==
    IF v.t = "str"
    THEN (CASE name = "str" -> v
            [] name = "int" -> Spelled(v)
            [] name = "float" -> ToFloat(Spelled(v)))
    ELSE IF v.t = "int"
    THEN (CASE name = "str" -> StrV(IntToStr(v.i))
            [] name = "int" -> v
            [] name = "float" -> FloatV(100 * v.i))
    ELSE (CASE name = "str" -> StrV(FloatToStr(v.c))
            [] name = "int" -> IntV(v.c \div 100)
            [] name = "float" -> v)

\* C16: in excel_to_json, a column declared str, int or float all of whose
\* cells have a representation in that type holds after coercion, cell by
\* cell, the value of the declared type that the cell spells, a decimal
\* comma read as the decimal point.
C16_CoercibleBecomesDeclaredType ==
    PastCoercion =>
        \A c \in 1..Len(Received) :
            LET col == Received[c].k
                cells == Received[c].v
            IN  \A name \in {"str", "int", "float"} :
                    (/\ Declares(col, {name})
                     /\ \A i \in 1..Len(cells) : Coercible(cells[i], name))
                    => /\ DictHas(df, col)
                       /\ DictGet(df, col) =
                              [i \in 1..Len(cells) |-> Native(cells[i], name)]

\* excel_to_json has coerced a column declared float that holds "10,5": the
\* cell is now the float 10.5.
C16_Witness ==
    /\ PastCoercion
    /\ Declares("qty", {"float"})
    /\ DictHas(Received, "qty") /\ DictHas(df, "qty")
    /\ \E i \in 1..Len(DictGet(Received, "qty")) :
           /\ DictGet(Received, "qty")[i] = StrV("10,5")
           /\ DictGet(df, "qty")[i] = FloatV(1050)

\* The names of the columns of a DataFrame.
ColumnNames(frame) == {frame[c].k : c \in 1..Len(frame)}

\* The entries of the field mapping whose source is a column of the sheet.
MappedEntries == {m \in 1..Len(field_mapping) : DictHas(sheet, field_mapping[m].v)}

\* The target names of the field mapping.
Targets == {field_mapping[m].k : m \in 1..Len(field_mapping)}

\* C17: in excel_to_json with a field mapping of which at least one source
\* is a column of the data, the DataFrame handed to coercion has exactly the
\* targets whose source is a column, each with the values of its source; and
\* no document of the output has a key that is a column of the data and no
\* target.
C17_MappedColumnsOnly ==
    (fn = "excel" /\ MappedEntries # {}) =>
        /\ cpc \in {"mapped", "loaded"} =>
              /\ ColumnNames(df) = {field_mapping[m].k : m \in MappedEntries}
              /\ \A m \in MappedEntries :
                     DictGet(df, field_mapping[m].k) = DictGet(sheet, field_mapping[m].v)
        /\ cpc = "returned" =>
              \A i \in 1..Len(Documents) :
                  \A name \in ColumnNames(sheet) \ Targets :
                      ~DictHas(Documents[i].d, name)

\* The fields the loaded schema names; none when no schema is applied.
SchemaFields ==
    IF datatypes.t = "dict" THEN {datatypes.d[e].k : e \in 1..Len(datatypes.d)} ELSE {}

NumRecords == IF sheet = <<>> THEN 0 ELSE Len(sheet[1].v)

\* The record of row i of the DataFrame: every column's name with its i-th
\* value.
RecordOfRow(i) == [c \in 1..Len(df) |-> [k |-> df[c].k, v |-> df[c].v[i]]]

\* The documents the reshaping of one record may give.
ReshapeOf(rec, nulls) ==
    LET u == unflatten_dic(rec)
    IN  IF ~u.ok THEN {}
        ELSE {DictV(m.d) : m \in {x \in merge_lists(u.d, nulls) : x.ok}}

\* C22: the output of a converter has one top-level key, the root element
\* given by the caller, over an array of one document per row of the input,
\* in the order of the rows, the i-th being the reshaping of the i-th record
\* alone.
C22_OneDocumentPerRecordInOrder ==
    cpc = "returned" =>
        /\ out_file.state = "written"
        /\ out_file.data.t = "dict"
        /\ Len(out_file.data.d) = 1
        /\ out_file.data.d[1].k = root_element
        /\ out_file.data.d[1].v.t = "list"
        /\ Len(Documents) = NumRecords
        /\ \A i \in 1..Len(Documents) :
               Documents[i] \in ReshapeOf(RecordOfRow(i), remove_nulls)

\* A converter called with the root element mapped_data has written two
\* documents that differ, in the order of their rows.
C22_Witness ==
    /\ cpc = "returned"
    /\ root_element = "mapped_data"
    /\ Len(Documents) >= 2
    /\ Documents[1] # Documents[2]
    /\ DictGet(sheet, "qty")[1] = StrV("text1")
    /\ DictGet(Documents[1].d, "qty") = StrV("text1")

\* C26: in csv_to_json, a column declared int or float that holds a text
\* spelling no number is recovered locally and only logged: the conversion
\* does not abort on it, and once it is over the output is written with a
\* document for every row.
C26_CsvBadColumnNotFatal ==
    (/\ fn = "csv"
     /\ cpc \notin {"called", "loaded"}
     /\ \E c \in 1..Len(sheet) :
            /\ Declares(sheet[c].k, {"int", "float"})
            /\ \E i \in 1..Len(sheet[c].v) : NotNumeric(sheet[c].v[i]))
    => /\ ~(cpc = "raised" /\ error = "read_csv")
       /\ cpc = "returned" =>
              /\ out_file.state = "written"
              /\ Len(raw_json) = NumRecords

-----------------------------------------------------------------------------
(***************************************************************************)
(* Properties of load_datatypes (checked under SpecLoad)                   *)
(***************************************************************************)

\* The call load_datatypes(schema_file) is over.
LoadOver == lpc \in {"returned", "raised"}

\* C11: on a text that neither the YAML parser nor the legacy parser
\* accepts, load_datatypes raises, and what it raises is the YAML parser's
\* error, yaml.YAMLError.
C11_MalformedRaisesYamlError ==
    (/\ LoadOver
     /\ schema_file.exists
     /\ ~schema_file.yaml.ok
     /\ ~schema_file.legacy.ok)
    => /\ lpc = "raised"
       /\ ~loaded.ok
       /\ loaded.exc = "YAMLError"

\* A mapping from field names to type tags.
IsFieldTypeMapping(v) ==
    /\ v.t = "dict"
    /\ \A i \in 1..Len(v.d) : v.d[i].v.t = "str" /\ v.d[i].v.s \in TypeTags

\* C12: what load_datatypes returns is a mapping from field name to type
\* tag; a text of another shape (a scalar, a list, a 'fields' key that
\* holds no mapping) yields no returned value.
C12_ReturnsMappingOrFails ==
    lpc = "returned" => IsFieldTypeMapping(loaded.v)

\* What the parser that accepted the text made of it.
ParsedSchema ==
    IF schema_file.yaml.ok THEN schema_file.yaml.data ELSE schema_file.legacy.data

\* A mapping with its type objects written as their names.
TypesNamed(v) ==
    IF v.t = "dict"
    THEN DictV([i \in 1..Len(v.d) |->
                 [k |-> v.d[i].k,
                  v |-> IF v.d[i].v.t = "type" THEN StrV(v.d[i].v.name) ELSE v.d[i].v]])
    ELSE v

\* The keys a value has, if it is a mapping.
EntryKeys(v) == IF v.t = "dict" THEN {v.d[i].k : i \in 1..Len(v.d)} ELSE {}

-----------------------------------------------------------------------------
(***************************************************************************)
(* Properties of the log buffer (checked under SpecBuffer)                 *)
(***************************************************************************)

\* C27: the buffer never holds more than 1000 records, and what it holds
\* are the records emitted last, in the order of their emission (the
\* record at place i of n is the one emitted n - i emissions before the
\* latest).
C27_BufferHoldsTheLatest ==
    /\ Len(log_records) <= 1000
    /\ \A i \in 1..Len(log_records) :
           log_records[i] = emitted - Len(log_records) + i

\* The buffer has been cleared, has filled up again and has dropped its
\* oldest record.
C27_Witness ==
    /\ clears > 0
    /\ since > 1000
    /\ Len(log_records) = 1000
    /\ log_records[1] = emitted - 999

-----------------------------------------------------------------------------
(***************************************************************************)
(* Properties of the mapping widget (checked under SpecWidget)             *)
(***************************************************************************)

\* The source is a value of the table's field mapping.
IsMapped(source) == \E i \in 1..Len(table_mapping) : table_mapping[i].v = source

\* C28: a chip is hidden if and only if its source is a value of the
\* table's field mapping.
C28_HiddenIffMapped ==
    \A c \in 1..Len(chips) : (chips[c] \in hidden) <=> IsMapped(chips[c])

=============================================================================
